---------------------------- MODULE Spec2Model ----------------------------
(***************************************************************************)
(* Isosurface extraction on a regular grid: the Marching Cubes case table  *)
(* and its generator, the Marching Cubes and Dual Contouring traversals,   *)
(* the QEF vertex placer with its boundary fallback cascade, and the Mesh  *)
(* container of utils_3d.py.                                               *)
(*                                                                         *)
(* Each part of the program is a sequential process of its own, with its   *)
(* own specification (SpecGen, SpecMC3, SpecTrav, SpecQEF, SpecSolve2,     *)
(* SpecCascade2, SpecFix, SpecFixAny, SpecMesh); the variables of the      *)
(* other parts stay at their idle values.                                  *)
(***************************************************************************)
EXTENDS Integers, Sequences, FiniteSets, TLC

VARIABLES
    \* marching_cubes_gen.py, the module-level script
    gpc,        \* position of the script
    ALL_CASES,  \* dict: bitmask -> tuple of triangles
    allKeys,    \* insertion order of the keys of ALL_CASES
    gi,         \* index of the loop in progress (inverse cases, test1 entries)
    opIdx,      \* index of op_set in OPERATIONS
    baseIdx,    \* index of the base case in BASE_CASES.items()
    opK,        \* index of op inside op_set (operations_apply)
    gfaces,     \* the local `faces` of operations_apply
    \* the grid traversals (marching_cubes_3d, marching_cubes_2d,
    \* dual_contour_2d, dual_contour_3d)
    alg,          \* which traversal runs: "mc3", "mc2", "dc2", "dc3"
    dims,         \* number of cells along x, y, z (frange(min, max, CELL_SIZE))
    field,        \* f: grid corner -> sample
    ADAPTIVE,     \* settings.ADAPTIVE
    tpc,          \* position of the traversal
    cur,          \* index of the next cell in iteration order
    mesh,         \* 3D result: [verts, faces]
    edges,        \* 2D result: list of Edge
    verts,        \* dual_contour_2d: dict cell -> V2 or None
    vert_array,   \* dual_contour_3d: list of placed vertices
    vert_indices, \* dual_contour_3d: dict cell -> 1-based index in vert_array
    fprop,        \* marching_cubes_2d: f_property, grid corner -> property
    dc_faces,     \* dual_contour_3d: the local list `faces`
    \* ---- qef.py: one call of solve_qef_2d / solve_qef_3d
    qpc,          \* position in solve_qef_2d / solve_qef_3d
    qdim,         \* 2 for solve_qef_2d, 3 for solve_qef_3d
    origin,       \* the arguments x, y (, z)
    positions,    \* the argument `positions`
    normals,      \* the argument `normals`
    BIAS,         \* settings.BIAS
    BOUNDARY,     \* settings.BOUNDARY
    CLIP,         \* settings.CLIP
    qef,          \* the local `qef`
    best,         \* the locals `residual, v`
    rs,           \* the local list `rs`
    tier,         \* the part of the cascade that assigned `residual, v` last
    ret,          \* the value returned
    \* ---- utils_3d.py: Mesh objects and the list objects they refer to
    lists,        \* the heap of list objects: address -> content
    meshes,       \* the Mesh objects: their verts and faces are addresses
    call          \* the last call made on the meshes, with the heap before it

genVars == <<gpc, ALL_CASES, allKeys, gi, opIdx, baseIdx, opK, gfaces>>

travVars == <<alg, dims, field, ADAPTIVE, tpc, cur, mesh, edges, verts,
              vert_array, vert_indices, fprop, dc_faces>>

qefVars == <<qpc, qdim, origin, positions, normals, BIAS, BOUNDARY, CLIP,
             qef, best, rs, tier, ret>>

heapVars == <<lists, meshes, call>>

vars == <<genVars, travVars, qefVars, heapVars>>

-----------------------------------------------------------------------------
(* Cube conventions shared by marching_cubes_gen.py and marching_cubes_3d.py *)

VertexList ==
    << <<0, 0, 0>>, <<1, 0, 0>>, <<1, 1, 0>>, <<0, 1, 0>>,
       <<0, 0, 1>>, <<1, 0, 1>>, <<1, 1, 1>>, <<0, 1, 1>> >>

\* VERTICES[v], v in 0..7
VERTICES(v) == VertexList[v + 1]

EdgeList ==
    << <<0, 1>>, <<1, 2>>, <<2, 3>>, <<3, 0>>,
       <<4, 5>>, <<5, 6>>, <<6, 7>>, <<7, 4>>,
       <<0, 4>>, <<1, 5>>, <<2, 6>>, <<3, 7>> >>

\* EDGES[e], e in 0..11
EDGES(e) == EdgeList[e + 1]

\* EDGES_BY_VERTSET[frozenset([v1, v2])]
EDGES_BY_VERTSET(v1, v2) ==
    CHOOSE e \in 0..11 : {EDGES(e)[1], EDGES(e)[2]} = {v1, v2}

\* 2**v & n > 0
BitSet(n, v) == (n \div (2 ^ v)) % 2 = 1

RECURSIVE SumSeq(_)
SumSeq(s) == IF s = <<>> THEN 0 ELSE Head(s) + SumSeq(Tail(s))

RECURSIVE SumSet(_)
SumSet(S) == IF S = {} THEN 0
             ELSE LET x == CHOOSE y \in S : TRUE IN x + SumSet(S \ {x})

-----------------------------------------------------------------------------
(* The hardcoded lookup table of marching_cubes_3d.py *)

CaseTable == <<
  <<>>,
  <<<<8, 0, 3>>>>,
  <<<<1, 0, 9>>>>,
  <<<<8, 1, 3>>, <<8, 9, 1>>>>,
  <<<<10, 2, 1>>>>,
  <<<<8, 0, 3>>, <<1, 10, 2>>>>,
  <<<<9, 2, 0>>, <<9, 10, 2>>>>,
  <<<<3, 8, 2>>, <<2, 8, 10>>, <<10, 8, 9>>>>,
  <<<<3, 2, 11>>>>,
  <<<<0, 2, 8>>, <<2, 11, 8>>>>,
  <<<<1, 0, 9>>, <<2, 11, 3>>>>,
  <<<<2, 9, 1>>, <<11, 9, 2>>, <<8, 9, 11>>>>,
  <<<<3, 10, 11>>, <<3, 1, 10>>>>,
  <<<<1, 10, 0>>, <<0, 10, 8>>, <<8, 10, 11>>>>,
  <<<<0, 11, 3>>, <<9, 11, 0>>, <<10, 11, 9>>>>,
  <<<<8, 9, 11>>, <<11, 9, 10>>>>,
  <<<<7, 4, 8>>>>,
  <<<<3, 7, 0>>, <<7, 4, 0>>>>,
  <<<<7, 4, 8>>, <<9, 1, 0>>>>,
  <<<<9, 1, 4>>, <<4, 1, 7>>, <<7, 1, 3>>>>,
  <<<<7, 4, 8>>, <<2, 1, 10>>>>,
  <<<<4, 3, 7>>, <<4, 0, 3>>, <<2, 1, 10>>>>,
  <<<<2, 0, 10>>, <<0, 9, 10>>, <<7, 4, 8>>>>,
  <<<<9, 10, 4>>, <<4, 10, 3>>, <<3, 10, 2>>, <<4, 3, 7>>>>,
  <<<<4, 8, 7>>, <<3, 2, 11>>>>,
  <<<<7, 4, 11>>, <<11, 4, 2>>, <<2, 4, 0>>>>,
  <<<<1, 0, 9>>, <<2, 11, 3>>, <<8, 7, 4>>>>,
  <<<<2, 11, 1>>, <<1, 11, 9>>, <<9, 11, 7>>, <<9, 7, 4>>>>,
  <<<<10, 11, 1>>, <<11, 3, 1>>, <<4, 8, 7>>>>,
  <<<<4, 0, 7>>, <<7, 0, 10>>, <<0, 1, 10>>, <<7, 10, 11>>>>,
  <<<<7, 4, 8>>, <<0, 11, 3>>, <<9, 11, 0>>, <<10, 11, 9>>>>,
  <<<<4, 11, 7>>, <<9, 11, 4>>, <<10, 11, 9>>>>,
  <<<<9, 4, 5>>>>,
  <<<<9, 4, 5>>, <<0, 3, 8>>>>,
  <<<<0, 5, 1>>, <<0, 4, 5>>>>,
  <<<<4, 3, 8>>, <<5, 3, 4>>, <<1, 3, 5>>>>,
  <<<<5, 9, 4>>, <<10, 2, 1>>>>,
  <<<<8, 0, 3>>, <<1, 10, 2>>, <<4, 5, 9>>>>,
  <<<<10, 4, 5>>, <<2, 4, 10>>, <<0, 4, 2>>>>,
  <<<<3, 10, 2>>, <<8, 10, 3>>, <<5, 10, 8>>, <<4, 5, 8>>>>,
  <<<<9, 4, 5>>, <<11, 3, 2>>>>,
  <<<<11, 0, 2>>, <<11, 8, 0>>, <<9, 4, 5>>>>,
  <<<<5, 1, 4>>, <<1, 0, 4>>, <<11, 3, 2>>>>,
  <<<<5, 1, 4>>, <<4, 1, 11>>, <<1, 2, 11>>, <<4, 11, 8>>>>,
  <<<<3, 10, 11>>, <<3, 1, 10>>, <<5, 9, 4>>>>,
  <<<<9, 4, 5>>, <<1, 10, 0>>, <<0, 10, 8>>, <<8, 10, 11>>>>,
  <<<<5, 0, 4>>, <<11, 0, 5>>, <<11, 3, 0>>, <<10, 11, 5>>>>,
  <<<<5, 10, 4>>, <<4, 10, 8>>, <<8, 10, 11>>>>,
  <<<<9, 7, 5>>, <<9, 8, 7>>>>,
  <<<<0, 5, 9>>, <<3, 5, 0>>, <<7, 5, 3>>>>,
  <<<<8, 7, 0>>, <<0, 7, 1>>, <<1, 7, 5>>>>,
  <<<<7, 5, 3>>, <<3, 5, 1>>>>,
  <<<<7, 5, 8>>, <<5, 9, 8>>, <<2, 1, 10>>>>,
  <<<<10, 2, 1>>, <<0, 5, 9>>, <<3, 5, 0>>, <<7, 5, 3>>>>,
  <<<<8, 2, 0>>, <<5, 2, 8>>, <<10, 2, 5>>, <<7, 5, 8>>>>,
  <<<<2, 3, 10>>, <<10, 3, 5>>, <<5, 3, 7>>>>,
  <<<<9, 7, 5>>, <<9, 8, 7>>, <<11, 3, 2>>>>,
  <<<<0, 2, 9>>, <<9, 2, 7>>, <<7, 2, 11>>, <<9, 7, 5>>>>,
  <<<<3, 2, 11>>, <<8, 7, 0>>, <<0, 7, 1>>, <<1, 7, 5>>>>,
  <<<<11, 1, 2>>, <<7, 1, 11>>, <<5, 1, 7>>>>,
  <<<<3, 1, 11>>, <<11, 1, 10>>, <<8, 7, 9>>, <<9, 7, 5>>>>,
  <<<<11, 7, 0>>, <<7, 5, 0>>, <<5, 9, 0>>, <<10, 11, 0>>, <<1, 10, 0>>>>,
  <<<<0, 5, 10>>, <<0, 7, 5>>, <<0, 8, 7>>, <<0, 10, 11>>, <<0, 11, 3>>>>,
  <<<<10, 11, 5>>, <<11, 7, 5>>>>,
  <<<<5, 6, 10>>>>,
  <<<<8, 0, 3>>, <<10, 5, 6>>>>,
  <<<<0, 9, 1>>, <<5, 6, 10>>>>,
  <<<<8, 1, 3>>, <<8, 9, 1>>, <<10, 5, 6>>>>,
  <<<<1, 6, 2>>, <<1, 5, 6>>>>,
  <<<<6, 2, 5>>, <<2, 1, 5>>, <<8, 0, 3>>>>,
  <<<<5, 6, 9>>, <<9, 6, 0>>, <<0, 6, 2>>>>,
  <<<<5, 8, 9>>, <<2, 8, 5>>, <<3, 8, 2>>, <<6, 2, 5>>>>,
  <<<<3, 2, 11>>, <<10, 5, 6>>>>,
  <<<<0, 2, 8>>, <<2, 11, 8>>, <<5, 6, 10>>>>,
  <<<<3, 2, 11>>, <<0, 9, 1>>, <<10, 5, 6>>>>,
  <<<<5, 6, 10>>, <<2, 9, 1>>, <<11, 9, 2>>, <<8, 9, 11>>>>,
  <<<<11, 3, 6>>, <<6, 3, 5>>, <<5, 3, 1>>>>,
  <<<<11, 8, 6>>, <<6, 8, 1>>, <<1, 8, 0>>, <<6, 1, 5>>>>,
  <<<<5, 0, 9>>, <<6, 0, 5>>, <<3, 0, 6>>, <<11, 3, 6>>>>,
  <<<<6, 9, 5>>, <<11, 9, 6>>, <<8, 9, 11>>>>,
  <<<<7, 4, 8>>, <<6, 10, 5>>>>,
  <<<<3, 7, 0>>, <<7, 4, 0>>, <<10, 5, 6>>>>,
  <<<<7, 4, 8>>, <<6, 10, 5>>, <<9, 1, 0>>>>,
  <<<<5, 6, 10>>, <<9, 1, 4>>, <<4, 1, 7>>, <<7, 1, 3>>>>,
  <<<<1, 6, 2>>, <<1, 5, 6>>, <<7, 4, 8>>>>,
  <<<<6, 1, 5>>, <<2, 1, 6>>, <<0, 7, 4>>, <<3, 7, 0>>>>,
  <<<<4, 8, 7>>, <<5, 6, 9>>, <<9, 6, 0>>, <<0, 6, 2>>>>,
  <<<<2, 3, 9>>, <<3, 7, 9>>, <<7, 4, 9>>, <<6, 2, 9>>, <<5, 6, 9>>>>,
  <<<<2, 11, 3>>, <<7, 4, 8>>, <<10, 5, 6>>>>,
  <<<<6, 10, 5>>, <<7, 4, 11>>, <<11, 4, 2>>, <<2, 4, 0>>>>,
  <<<<1, 0, 9>>, <<8, 7, 4>>, <<3, 2, 11>>, <<5, 6, 10>>>>,
  <<<<1, 2, 9>>, <<9, 2, 11>>, <<9, 11, 4>>, <<4, 11, 7>>, <<5, 6, 10>>>>,
  <<<<7, 4, 8>>, <<11, 3, 6>>, <<6, 3, 5>>, <<5, 3, 1>>>>,
  <<<<11, 0, 1>>, <<11, 4, 0>>, <<11, 7, 4>>, <<11, 1, 5>>, <<11, 5, 6>>>>,
  <<<<6, 9, 5>>, <<0, 9, 6>>, <<11, 0, 6>>, <<3, 0, 11>>, <<4, 8, 7>>>>,
  <<<<5, 6, 9>>, <<9, 6, 11>>, <<9, 11, 7>>, <<9, 7, 4>>>>,
  <<<<4, 10, 9>>, <<4, 6, 10>>>>,
  <<<<10, 4, 6>>, <<10, 9, 4>>, <<8, 0, 3>>>>,
  <<<<1, 0, 10>>, <<10, 0, 6>>, <<6, 0, 4>>>>,
  <<<<8, 1, 3>>, <<6, 1, 8>>, <<6, 10, 1>>, <<4, 6, 8>>>>,
  <<<<9, 2, 1>>, <<4, 2, 9>>, <<6, 2, 4>>>>,
  <<<<3, 8, 0>>, <<9, 2, 1>>, <<4, 2, 9>>, <<6, 2, 4>>>>,
  <<<<0, 4, 2>>, <<2, 4, 6>>>>,
  <<<<8, 2, 3>>, <<4, 2, 8>>, <<6, 2, 4>>>>,
  <<<<4, 10, 9>>, <<4, 6, 10>>, <<2, 11, 3>>>>,
  <<<<11, 8, 2>>, <<2, 8, 0>>, <<6, 10, 4>>, <<4, 10, 9>>>>,
  <<<<2, 11, 3>>, <<1, 0, 10>>, <<10, 0, 6>>, <<6, 0, 4>>>>,
  <<<<8, 4, 1>>, <<4, 6, 1>>, <<6, 10, 1>>, <<11, 8, 1>>, <<2, 11, 1>>>>,
  <<<<3, 1, 11>>, <<11, 1, 4>>, <<1, 9, 4>>, <<11, 4, 6>>>>,
  <<<<6, 11, 1>>, <<11, 8, 1>>, <<8, 0, 1>>, <<4, 6, 1>>, <<9, 4, 1>>>>,
  <<<<3, 0, 11>>, <<11, 0, 6>>, <<6, 0, 4>>>>,
  <<<<4, 11, 8>>, <<4, 6, 11>>>>,
  <<<<6, 8, 7>>, <<10, 8, 6>>, <<9, 8, 10>>>>,
  <<<<3, 7, 0>>, <<0, 7, 10>>, <<7, 6, 10>>, <<0, 10, 9>>>>,
  <<<<1, 6, 10>>, <<0, 6, 1>>, <<7, 6, 0>>, <<8, 7, 0>>>>,
  <<<<10, 1, 6>>, <<6, 1, 7>>, <<7, 1, 3>>>>,
  <<<<9, 8, 1>>, <<1, 8, 6>>, <<6, 8, 7>>, <<1, 6, 2>>>>,
  <<<<9, 7, 6>>, <<9, 3, 7>>, <<9, 0, 3>>, <<9, 6, 2>>, <<9, 2, 1>>>>,
  <<<<7, 6, 8>>, <<8, 6, 0>>, <<0, 6, 2>>>>,
  <<<<3, 6, 2>>, <<3, 7, 6>>>>,
  <<<<3, 2, 11>>, <<6, 8, 7>>, <<10, 8, 6>>, <<9, 8, 10>>>>,
  <<<<7, 9, 0>>, <<7, 10, 9>>, <<7, 6, 10>>, <<7, 0, 2>>, <<7, 2, 11>>>>,
  <<<<0, 10, 1>>, <<6, 10, 0>>, <<8, 6, 0>>, <<7, 6, 8>>, <<2, 11, 3>>>>,
  <<<<1, 6, 10>>, <<7, 6, 1>>, <<11, 7, 1>>, <<2, 11, 1>>>>,
  <<<<1, 9, 6>>, <<9, 8, 6>>, <<8, 7, 6>>, <<3, 1, 6>>, <<11, 3, 6>>>>,
  <<<<9, 0, 1>>, <<11, 7, 6>>>>,
  <<<<0, 11, 3>>, <<6, 11, 0>>, <<7, 6, 0>>, <<8, 7, 0>>>>,
  <<<<7, 6, 11>>>>,
  <<<<11, 6, 7>>>>,
  <<<<3, 8, 0>>, <<11, 6, 7>>>>,
  <<<<1, 0, 9>>, <<6, 7, 11>>>>,
  <<<<1, 3, 9>>, <<3, 8, 9>>, <<6, 7, 11>>>>,
  <<<<10, 2, 1>>, <<6, 7, 11>>>>,
  <<<<10, 2, 1>>, <<3, 8, 0>>, <<6, 7, 11>>>>,
  <<<<9, 2, 0>>, <<9, 10, 2>>, <<11, 6, 7>>>>,
  <<<<11, 6, 7>>, <<3, 8, 2>>, <<2, 8, 10>>, <<10, 8, 9>>>>,
  <<<<2, 6, 3>>, <<6, 7, 3>>>>,
  <<<<8, 6, 7>>, <<0, 6, 8>>, <<2, 6, 0>>>>,
  <<<<7, 2, 6>>, <<7, 3, 2>>, <<1, 0, 9>>>>,
  <<<<8, 9, 7>>, <<7, 9, 2>>, <<2, 9, 1>>, <<7, 2, 6>>>>,
  <<<<6, 1, 10>>, <<7, 1, 6>>, <<3, 1, 7>>>>,
  <<<<8, 0, 7>>, <<7, 0, 6>>, <<6, 0, 1>>, <<6, 1, 10>>>>,
  <<<<7, 3, 6>>, <<6, 3, 9>>, <<3, 0, 9>>, <<6, 9, 10>>>>,
  <<<<7, 8, 6>>, <<6, 8, 10>>, <<10, 8, 9>>>>,
  <<<<8, 11, 4>>, <<11, 6, 4>>>>,
  <<<<11, 0, 3>>, <<6, 0, 11>>, <<4, 0, 6>>>>,
  <<<<6, 4, 11>>, <<4, 8, 11>>, <<1, 0, 9>>>>,
  <<<<1, 3, 9>>, <<9, 3, 6>>, <<3, 11, 6>>, <<9, 6, 4>>>>,
  <<<<8, 11, 4>>, <<11, 6, 4>>, <<1, 10, 2>>>>,
  <<<<1, 10, 2>>, <<11, 0, 3>>, <<6, 0, 11>>, <<4, 0, 6>>>>,
  <<<<2, 9, 10>>, <<0, 9, 2>>, <<4, 11, 6>>, <<8, 11, 4>>>>,
  <<<<3, 4, 9>>, <<3, 6, 4>>, <<3, 11, 6>>, <<3, 9, 10>>, <<3, 10, 2>>>>,
  <<<<3, 2, 8>>, <<8, 2, 4>>, <<4, 2, 6>>>>,
  <<<<2, 4, 0>>, <<6, 4, 2>>>>,
  <<<<0, 9, 1>>, <<3, 2, 8>>, <<8, 2, 4>>, <<4, 2, 6>>>>,
  <<<<1, 2, 9>>, <<9, 2, 4>>, <<4, 2, 6>>>>,
  <<<<10, 3, 1>>, <<4, 3, 10>>, <<4, 8, 3>>, <<6, 4, 10>>>>,
  <<<<10, 0, 1>>, <<6, 0, 10>>, <<4, 0, 6>>>>,
  <<<<3, 10, 6>>, <<3, 9, 10>>, <<3, 0, 9>>, <<3, 6, 4>>, <<3, 4, 8>>>>,
  <<<<9, 10, 4>>, <<10, 6, 4>>>>,
  <<<<9, 4, 5>>, <<7, 11, 6>>>>,
  <<<<9, 4, 5>>, <<7, 11, 6>>, <<0, 3, 8>>>>,
  <<<<0, 5, 1>>, <<0, 4, 5>>, <<6, 7, 11>>>>,
  <<<<11, 6, 7>>, <<4, 3, 8>>, <<5, 3, 4>>, <<1, 3, 5>>>>,
  <<<<1, 10, 2>>, <<9, 4, 5>>, <<6, 7, 11>>>>,
  <<<<8, 0, 3>>, <<4, 5, 9>>, <<10, 2, 1>>, <<11, 6, 7>>>>,
  <<<<7, 11, 6>>, <<10, 4, 5>>, <<2, 4, 10>>, <<0, 4, 2>>>>,
  <<<<8, 2, 3>>, <<10, 2, 8>>, <<4, 10, 8>>, <<5, 10, 4>>, <<11, 6, 7>>>>,
  <<<<2, 6, 3>>, <<6, 7, 3>>, <<9, 4, 5>>>>,
  <<<<5, 9, 4>>, <<8, 6, 7>>, <<0, 6, 8>>, <<2, 6, 0>>>>,
  <<<<7, 3, 6>>, <<6, 3, 2>>, <<4, 5, 0>>, <<0, 5, 1>>>>,
  <<<<8, 1, 2>>, <<8, 5, 1>>, <<8, 4, 5>>, <<8, 2, 6>>, <<8, 6, 7>>>>,
  <<<<9, 4, 5>>, <<6, 1, 10>>, <<7, 1, 6>>, <<3, 1, 7>>>>,
  <<<<7, 8, 6>>, <<6, 8, 0>>, <<6, 0, 10>>, <<10, 0, 1>>, <<5, 9, 4>>>>,
  <<<<3, 0, 10>>, <<0, 4, 10>>, <<4, 5, 10>>, <<7, 3, 10>>, <<6, 7, 10>>>>,
  <<<<8, 6, 7>>, <<10, 6, 8>>, <<5, 10, 8>>, <<4, 5, 8>>>>,
  <<<<5, 9, 6>>, <<6, 9, 11>>, <<11, 9, 8>>>>,
  <<<<11, 6, 3>>, <<3, 6, 0>>, <<0, 6, 5>>, <<0, 5, 9>>>>,
  <<<<8, 11, 0>>, <<0, 11, 5>>, <<5, 11, 6>>, <<0, 5, 1>>>>,
  <<<<6, 3, 11>>, <<5, 3, 6>>, <<1, 3, 5>>>>,
  <<<<10, 2, 1>>, <<5, 9, 6>>, <<6, 9, 11>>, <<11, 9, 8>>>>,
  <<<<3, 11, 0>>, <<0, 11, 6>>, <<0, 6, 9>>, <<9, 6, 5>>, <<1, 10, 2>>>>,
  <<<<0, 8, 5>>, <<8, 11, 5>>, <<11, 6, 5>>, <<2, 0, 5>>, <<10, 2, 5>>>>,
  <<<<11, 6, 3>>, <<3, 6, 5>>, <<3, 5, 10>>, <<3, 10, 2>>>>,
  <<<<3, 9, 8>>, <<6, 9, 3>>, <<5, 9, 6>>, <<2, 6, 3>>>>,
  <<<<9, 6, 5>>, <<0, 6, 9>>, <<2, 6, 0>>>>,
  <<<<6, 5, 8>>, <<5, 1, 8>>, <<1, 0, 8>>, <<2, 6, 8>>, <<3, 2, 8>>>>,
  <<<<2, 6, 1>>, <<6, 5, 1>>>>,
  <<<<6, 8, 3>>, <<6, 9, 8>>, <<6, 5, 9>>, <<6, 3, 1>>, <<6, 1, 10>>>>,
  <<<<1, 10, 0>>, <<0, 10, 6>>, <<0, 6, 5>>, <<0, 5, 9>>>>,
  <<<<3, 0, 8>>, <<6, 5, 10>>>>,
  <<<<10, 6, 5>>>>,
  <<<<5, 11, 10>>, <<5, 7, 11>>>>,
  <<<<5, 11, 10>>, <<5, 7, 11>>, <<3, 8, 0>>>>,
  <<<<11, 10, 7>>, <<10, 5, 7>>, <<0, 9, 1>>>>,
  <<<<5, 7, 10>>, <<10, 7, 11>>, <<9, 1, 8>>, <<8, 1, 3>>>>,
  <<<<2, 1, 11>>, <<11, 1, 7>>, <<7, 1, 5>>>>,
  <<<<3, 8, 0>>, <<2, 1, 11>>, <<11, 1, 7>>, <<7, 1, 5>>>>,
  <<<<2, 0, 11>>, <<11, 0, 5>>, <<5, 0, 9>>, <<11, 5, 7>>>>,
  <<<<2, 9, 5>>, <<2, 8, 9>>, <<2, 3, 8>>, <<2, 5, 7>>, <<2, 7, 11>>>>,
  <<<<10, 3, 2>>, <<5, 3, 10>>, <<7, 3, 5>>>>,
  <<<<10, 0, 2>>, <<7, 0, 10>>, <<8, 0, 7>>, <<5, 7, 10>>>>,
  <<<<0, 9, 1>>, <<10, 3, 2>>, <<5, 3, 10>>, <<7, 3, 5>>>>,
  <<<<7, 8, 2>>, <<8, 9, 2>>, <<9, 1, 2>>, <<5, 7, 2>>, <<10, 5, 2>>>>,
  <<<<3, 1, 7>>, <<7, 1, 5>>>>,
  <<<<0, 7, 8>>, <<1, 7, 0>>, <<5, 7, 1>>>>,
  <<<<9, 5, 0>>, <<0, 5, 3>>, <<3, 5, 7>>>>,
  <<<<5, 7, 9>>, <<7, 8, 9>>>>,
  <<<<4, 10, 5>>, <<8, 10, 4>>, <<11, 10, 8>>>>,
  <<<<3, 4, 0>>, <<10, 4, 3>>, <<10, 5, 4>>, <<11, 10, 3>>>>,
  <<<<1, 0, 9>>, <<4, 10, 5>>, <<8, 10, 4>>, <<11, 10, 8>>>>,
  <<<<4, 3, 11>>, <<4, 1, 3>>, <<4, 9, 1>>, <<4, 11, 10>>, <<4, 10, 5>>>>,
  <<<<1, 5, 2>>, <<2, 5, 8>>, <<5, 4, 8>>, <<2, 8, 11>>>>,
  <<<<5, 4, 11>>, <<4, 0, 11>>, <<0, 3, 11>>, <<1, 5, 11>>, <<2, 1, 11>>>>,
  <<<<5, 11, 2>>, <<5, 8, 11>>, <<5, 4, 8>>, <<5, 2, 0>>, <<5, 0, 9>>>>,
  <<<<5, 4, 9>>, <<2, 3, 11>>>>,
  <<<<3, 4, 8>>, <<2, 4, 3>>, <<5, 4, 2>>, <<10, 5, 2>>>>,
  <<<<5, 4, 10>>, <<10, 4, 2>>, <<2, 4, 0>>>>,
  <<<<2, 8, 3>>, <<4, 8, 2>>, <<10, 4, 2>>, <<5, 4, 10>>, <<0, 9, 1>>>>,
  <<<<4, 10, 5>>, <<2, 10, 4>>, <<1, 2, 4>>, <<9, 1, 4>>>>,
  <<<<8, 3, 4>>, <<4, 3, 5>>, <<5, 3, 1>>>>,
  <<<<1, 5, 0>>, <<5, 4, 0>>>>,
  <<<<5, 0, 9>>, <<3, 0, 5>>, <<8, 3, 5>>, <<4, 8, 5>>>>,
  <<<<5, 4, 9>>>>,
  <<<<7, 11, 4>>, <<4, 11, 9>>, <<9, 11, 10>>>>,
  <<<<8, 0, 3>>, <<7, 11, 4>>, <<4, 11, 9>>, <<9, 11, 10>>>>,
  <<<<0, 4, 1>>, <<1, 4, 11>>, <<4, 7, 11>>, <<1, 11, 10>>>>,
  <<<<10, 1, 4>>, <<1, 3, 4>>, <<3, 8, 4>>, <<11, 10, 4>>, <<7, 11, 4>>>>,
  <<<<9, 4, 1>>, <<1, 4, 2>>, <<2, 4, 7>>, <<2, 7, 11>>>>,
  <<<<1, 9, 2>>, <<2, 9, 4>>, <<2, 4, 11>>, <<11, 4, 7>>, <<3, 8, 0>>>>,
  <<<<11, 4, 7>>, <<2, 4, 11>>, <<0, 4, 2>>>>,
  <<<<7, 11, 4>>, <<4, 11, 2>>, <<4, 2, 3>>, <<4, 3, 8>>>>,
  <<<<10, 9, 2>>, <<2, 9, 7>>, <<7, 9, 4>>, <<2, 7, 3>>>>,
  <<<<2, 10, 7>>, <<10, 9, 7>>, <<9, 4, 7>>, <<0, 2, 7>>, <<8, 0, 7>>>>,
  <<<<10, 4, 7>>, <<10, 0, 4>>, <<10, 1, 0>>, <<10, 7, 3>>, <<10, 3, 2>>>>,
  <<<<8, 4, 7>>, <<10, 1, 2>>>>,
  <<<<4, 1, 9>>, <<7, 1, 4>>, <<3, 1, 7>>>>,
  <<<<8, 0, 7>>, <<7, 0, 1>>, <<7, 1, 9>>, <<7, 9, 4>>>>,
  <<<<0, 7, 3>>, <<0, 4, 7>>>>,
  <<<<8, 4, 7>>>>,
  <<<<9, 8, 10>>, <<10, 8, 11>>>>,
  <<<<3, 11, 0>>, <<0, 11, 9>>, <<9, 11, 10>>>>,
  <<<<0, 10, 1>>, <<8, 10, 0>>, <<11, 10, 8>>>>,
  <<<<11, 10, 3>>, <<10, 1, 3>>>>,
  <<<<1, 9, 2>>, <<2, 9, 11>>, <<11, 9, 8>>>>,
  <<<<9, 2, 1>>, <<11, 2, 9>>, <<3, 11, 9>>, <<0, 3, 9>>>>,
  <<<<8, 2, 0>>, <<8, 11, 2>>>>,
  <<<<11, 2, 3>>>>,
  <<<<2, 8, 3>>, <<10, 8, 2>>, <<9, 8, 10>>>>,
  <<<<0, 2, 9>>, <<2, 10, 9>>>>,
  <<<<3, 2, 8>>, <<8, 2, 10>>, <<8, 10, 1>>, <<8, 1, 0>>>>,
  <<<<1, 2, 10>>>>,
  <<<<3, 1, 8>>, <<1, 9, 8>>>>,
  <<<<9, 0, 1>>>>,
  <<<<3, 0, 8>>>>,
  <<>>>>

\* a table with a mistyped edge in entry 1: (8, 0, 1) for (8, 0, 3)
cases_mistyped_edge(b) == IF b = 1 THEN << <<8, 0, 1>> >> ELSE CaseTable[b + 1]

\* a table whose entry 250 is entry 5 with the winding reversed (the plain
\* inversion the generator's INVERSE_CASES exist to avoid)
cases_plain_inverse(b) ==
    IF b = 250 THEN << <<3, 0, 8>>, <<2, 10, 1>> >> ELSE CaseTable[b + 1]

\* a table in which the second triangle of every entry is listed backwards
cases_second_triangle_backwards(b) ==
    LET entry == CaseTable[b + 1]
    IN  [f \in 1..Len(entry) |->
            IF f = 2 THEN <<entry[f][3], entry[f][2], entry[f][1]>>
            ELSE entry[f]]

\* cases[b], b in 0..255
cases(b) == CaseTable[b + 1]

-----------------------------------------------------------------------------
(* marching_cubes_gen.py *)

\* BASE_CASES in the order of BASE_CASES.items()
BASE_KEYS == <<0, 1, 3, 5, 65, 50, 67, 74, 51, 177, 105, 113, 58, 165, 178>>

BASE_FACES == <<
    <<>>,
    << <<8, 0, 3>> >>,
    << <<8, 1, 3>>, <<8, 9, 1>> >>,
    << <<8, 0, 3>>, <<1, 10, 2>> >>,
    << <<8, 0, 3>>, <<10, 5, 6>> >>,
    << <<8, 7, 0>>, <<0, 7, 1>>, <<1, 7, 5>> >>,
    << <<8, 1, 3>>, <<8, 9, 1>>, <<10, 5, 6>> >>,
    << <<3, 2, 11>>, <<0, 9, 1>>, <<10, 5, 6>> >>,
    << <<7, 5, 3>>, <<3, 5, 1>> >>,
    << <<11, 6, 3>>, <<3, 6, 0>>, <<0, 6, 5>>, <<0, 5, 9>> >>,
    << <<11, 8, 2>>, <<2, 8, 0>>, <<6, 10, 4>>, <<4, 10, 9>> >>,
    << <<3, 7, 0>>, <<0, 7, 10>>, <<7, 6, 10>>, <<0, 10, 9>> >>,
    << <<3, 2, 11>>, <<8, 7, 0>>, <<0, 7, 1>>, <<1, 7, 5>> >>,
    << <<8, 0, 3>>, <<4, 5, 9>>, <<10, 2, 1>>, <<11, 6, 7>> >>,
    << <<8, 11, 0>>, <<0, 11, 5>>, <<5, 11, 6>>, <<0, 5, 1>> >> >>

BASE_CASES == [b \in {BASE_KEYS[i] : i \in 1..Len(BASE_KEYS)} |->
                 BASE_FACES[CHOOSE i \in 1..Len(BASE_KEYS) : BASE_KEYS[i] = b]]

\* INVERSE_CASES in the order of INVERSE_CASES.items()
INVERSE_KEYS == <<255 - 5, 255 - 67, 255 - 74>>

INVERSE_FACES == <<
    << <<3, 2, 8>>, <<8, 2, 10>>, <<8, 10, 1>>, <<8, 1, 0>> >>,
    << <<6, 8, 3>>, <<6, 9, 8>>, <<6, 5, 9>>, <<6, 3, 1>>, <<6, 1, 10>> >>,
    << <<3, 11, 0>>, <<0, 11, 6>>, <<0, 6, 9>>, <<9, 6, 5>>, <<1, 10, 2>> >> >>

\* Vertex permutations; op[v] is Perm(op, v)
ROTATE_1 == <<1, 2, 3, 0, 5, 6, 7, 4>>
ROTATE_2 == <<3, 2, 6, 7, 0, 1, 5, 4>>
ROTATE_3 == <<1, 5, 6, 2, 0, 4, 7, 3>>
REFLECT  == <<1, 0, 3, 2, 5, 4, 7, 6>>

Perm(op, v) == op[v + 1]

bits_to_verts(n) == {v \in 0..7 : BitSet(n, v)}

verts_to_bits(vs) == SumSeq(vs)

\* verts_to_bits([op[v] for v in bits_to_verts(n)])
bits_apply(op, n) == SumSet({2 ^ Perm(op, v) : v \in bits_to_verts(n)})

faces_apply(op, faces) ==
    [f \in 1..Len(faces) |->
        [j \in 1..3 |->
            EDGES_BY_VERTSET(Perm(op, EDGES(faces[f][j])[1]),
                             Perm(op, EDGES(faces[f][j])[2]))]]

OPERATIONS == << <<ROTATE_1, ROTATE_1, ROTATE_1>>, <<ROTATE_2>>, <<ROTATE_3>>, <<REFLECT>> >>

\* d[k] = v on a dict
DictPut(d, k, v) == [x \in (DOMAIN d) \cup {k} |-> IF x = k THEN v ELSE d[x]]

KeysPut(keys, k) ==
    IF \E i \in 1..Len(keys) : keys[i] = k THEN keys ELSE Append(keys, k)

\* the body of test1 for one entry of ALL_CASES
test1_entry(bits, faces) ==
    \A f \in 1..Len(faces) : \A j \in 1..3 :
        BitSet(bits, EDGES(faces[f][j])[1]) # BitSet(bits, EDGES(faces[f][j])[2])

test1(all) == \A bits \in DOMAIN all : test1_entry(bits, all[bits])

test2(all) ==
    \A bits \in DOMAIN all :
        \A f \in 1..Len(all[bits]) : \A j \in 1..3 :
            \/ EDGES(all[bits][f][j])[1] \in bits_to_verts(bits)
            \/ EDGES(all[bits][f][j])[2] \in bits_to_verts(bits)

\* sum(2**v in [bits1, bits2] for v in range(8)) == 4 guards the comparison
test3(all) ==
    \A bits1 \in DOMAIN all : \A bits2 \in DOMAIN all :
        (Cardinality({v \in 0..7 : 2 ^ v \in {bits1, bits2}}) = 4)
            => all[bits1] = all[bits2]

GenStart ==
    /\ gpc = "inverse"
    /\ ALL_CASES = BASE_CASES
    /\ allKeys = BASE_KEYS
    /\ gi = 1
    /\ opIdx = 1
    /\ baseIdx = 1
    /\ opK = 1
    /\ gfaces = <<>>

\* for bits, faces in INVERSE_CASES.items(): ALL_CASES[bits] = faces
AddInverse ==
    /\ gpc = "inverse"
    /\ ALL_CASES' = DictPut(ALL_CASES, INVERSE_KEYS[gi], INVERSE_FACES[gi])
    /\ allKeys' = KeysPut(allKeys, INVERSE_KEYS[gi])
    /\ IF gi < Len(INVERSE_KEYS)
         THEN /\ gi' = gi + 1
              /\ UNCHANGED <<gpc, gfaces>>
         ELSE /\ gi' = 1
              /\ gpc' = "apply"
              /\ gfaces' = BASE_FACES[1]
    /\ UNCHANGED <<opIdx, baseIdx, opK>>
    /\ UNCHANGED <<travVars, qefVars, heapVars>>

\* one iteration of the loop of operations_apply(op_set, faces)
ApplyOp ==
    /\ gpc = "apply"
    /\ gfaces' = faces_apply(OPERATIONS[opIdx][opK], gfaces)
    /\ IF opK < Len(OPERATIONS[opIdx])
         THEN opK' = opK + 1 /\ gpc' = gpc
         ELSE opK' = 1 /\ gpc' = "assign"
    /\ UNCHANGED <<ALL_CASES, allKeys, gi, opIdx, baseIdx>>
    /\ UNCHANGED <<travVars, qefVars, heapVars>>

\* the key under which the loop stores the result
StoreKey(op_set, base) == bits_apply(op_set[Len(op_set)], base)

\* ALL_CASES[bits_apply(op_set[-1], base)] = result, then the next (op_set, base)
AssignCase ==
    /\ gpc = "assign"
    /\ ALL_CASES' = DictPut(ALL_CASES, StoreKey(OPERATIONS[opIdx], BASE_KEYS[baseIdx]), gfaces)
    /\ allKeys' = KeysPut(allKeys, StoreKey(OPERATIONS[opIdx], BASE_KEYS[baseIdx]))
    /\ IF baseIdx < Len(BASE_KEYS)
         THEN /\ baseIdx' = baseIdx + 1
              /\ gfaces' = BASE_FACES[baseIdx + 1]
              /\ gpc' = "apply"
              /\ UNCHANGED opIdx
         ELSE IF opIdx < Len(OPERATIONS)
         THEN /\ baseIdx' = 1
              /\ opIdx' = opIdx + 1
              /\ gfaces' = BASE_FACES[1]
              /\ gpc' = "apply"
         ELSE /\ gpc' = "test1"
              /\ gfaces' = <<>>
              /\ UNCHANGED <<baseIdx, opIdx>>
    /\ UNCHANGED <<gi, opK>>
    /\ UNCHANGED <<travVars, qefVars, heapVars>>

\* test1() one entry at a time, in dict order; a failed assert ends the script.
\* After the last entry test2() and test3() run and the table is printed.
Test1Step ==
    /\ gpc = "test1"
    /\ IF ~test1_entry(allKeys[gi], ALL_CASES[allKeys[gi]])
         THEN gpc' = "failed" /\ gi' = gi
         ELSE IF gi < Len(allKeys)
         THEN gpc' = gpc /\ gi' = gi + 1
         ELSE /\ gi' = gi
              /\ gpc' = IF test2(ALL_CASES) /\ test3(ALL_CASES) THEN "done" ELSE "failed"
    /\ UNCHANGED <<ALL_CASES, allKeys, opIdx, baseIdx, opK, gfaces>>
    /\ UNCHANGED <<travVars, qefVars, heapVars>>

GenIdle ==
    /\ gpc = "idle"
    /\ ALL_CASES = <<>>
    /\ allKeys = <<>>
    /\ gi = 0
    /\ opIdx = 0
    /\ baseIdx = 0
    /\ opK = 0
    /\ gfaces = <<>>


-----------------------------------------------------------------------------
(* Exact rational numbers <<n, d>>, d > 0, in lowest terms: the values the   *)
(* program computes in floating point are modelled as the reals they stand for *)

Abs(n) == IF n < 0 THEN -n ELSE n

RECURSIVE GCD(_, _)
GCD(a, b) == IF b = 0 THEN a ELSE GCD(b, a % b)

Rat(n, d) ==
    LET g == GCD(Abs(n), Abs(d))
        s == IF d < 0 THEN -1 ELSE 1
    IN  <<(s * n) \div g, (s * d) \div g>>

RInt(k) == <<k, 1>>
\* sums and comparisons go through the least common denominator
RAdd(a, b) ==
    LET g == GCD(a[2], b[2])
    IN  Rat(a[1] * (b[2] \div g) + b[1] * (a[2] \div g), (a[2] \div g) * b[2])
RNeg(a) == <<-a[1], a[2]>>
RSub(a, b) == RAdd(a, RNeg(b))
RMul(a, b) == Rat(a[1] * b[1], a[2] * b[2])
RLeq(a, b) ==
    LET g == GCD(a[2], b[2])
    IN  a[1] * (b[2] \div g) <= b[1] * (a[2] \div g)
RLess(a, b) == ~RLeq(b, a)

-----------------------------------------------------------------------------
(* settings.py and common.py *)

CELL_SIZE == 1

\* the value raised by a failed assert
AssertionError == <<"AssertionError">>

\* an adapt that interpolates from the corner of v1
adapt_measured_from_v1(v0, v1) ==
    IF (v1 > 0) = (v0 > 0)
      THEN AssertionError
      ELSE IF ADAPTIVE
             THEN RMul(Rat(0 - v1, v0 - v1), RInt(CELL_SIZE))
             ELSE RMul(Rat(1, 2), RInt(CELL_SIZE))

\* an adapt that checks the signs only on the interpolating path
adapt_asserts_only_when_adaptive(v0, v1) ==
    IF ADAPTIVE
      THEN IF (v1 > 0) = (v0 > 0)
             THEN AssertionError
             ELSE RMul(Rat(0 - v0, v1 - v0), RInt(CELL_SIZE))
      ELSE RMul(Rat(1, 2), RInt(CELL_SIZE))

\* an adapt that asserts one sample is positive and the other negative
adapt_rejects_zero_sample(v0, v1) ==
    IF ~(v0 * v1 < 0)
      THEN AssertionError
      ELSE IF ADAPTIVE
             THEN RMul(Rat(0 - v0, v1 - v0), RInt(CELL_SIZE))
             ELSE RMul(Rat(1, 2), RInt(CELL_SIZE))

\* adapt(v0, v1): the offset of the zero crossing from the corner of v0
adapt(v0, v1) ==
    IF (v1 > 0) = (v0 > 0)
      THEN AssertionError
      ELSE IF ADAPTIVE
             THEN RMul(Rat(0 - v0, v1 - v0), RInt(CELL_SIZE))
             ELSE RMul(Rat(1, 2), RInt(CELL_SIZE))

\* list(enumerate(frange(0, n * CELL_SIZE, CELL_SIZE))): the indices 0..n-1;
\* with CELL_SIZE = 1 and the grid minimum at 0 the coordinate equals the index
Range0(n) == [i \in 1..n |-> i - 1]

\* the elements of a list
Range(f) == {f[i] : i \in DOMAIN f}

RECURSIVE UpTo(_, _)
\* the subsets of C with at most k elements
UpTo(C, k) ==
    IF k = 0 THEN {{}}
    ELSE LET prev == UpTo(C, k - 1)
         IN  prev \cup {s \cup {c} : s \in prev, c \in C}

-----------------------------------------------------------------------------
(* utils_3d.py: faces are tuples of 1-based vertex indices, Tri of 3, Quad of 4 *)

Tri(v1, v2, v3) == <<v1, v2, v3>>
Quad(v1, v2, v3, v4) == <<v1, v2, v3, v4>>

\* a swap that leaves the winding as written
QuadSwap_keeps_order(q, swap) == q

\* Quad.swap(swap)
QuadSwap(q, swap) == IF swap THEN Quad(q[4], q[3], q[2], q[1]) ELSE q

\* Tri.swap does not exist in utils_3d.py; dual_contour_3d calls it only with USE_TRI

\* Mesh(verts, faces)
Mesh(vs, fs) == [verts |-> vs, faces |-> fs]

\* a map that leaves the indices of the incoming faces as they are
FaceShift_without_offset(face, l) == face

\* face.map(lambda v: v + l)
FaceShift(face, l) == [j \in 1..Len(face) |-> face[j] + l]

\* Mesh.extend(other)
MeshExtend(self, other) ==
    LET l == Len(self.verts)
    IN  Mesh(self.verts \o other.verts,
             self.faces \o [i \in 1..Len(other.faces) |-> FaceShift(other.faces[i], l)])

-----------------------------------------------------------------------------
(* marching_cubes_3d.py *)

\* f(x, y, z)
F3(x, y, z) == field[<<x, y, z>>]

\* f_eval[v] of the cell with lower corner (x, y, z)
f_eval(cell, v) ==
    F3(cell[1] + VERTICES(v)[1] * CELL_SIZE,
       cell[2] + VERTICES(v)[2] * CELL_SIZE,
       cell[3] + VERTICES(v)[3] * CELL_SIZE)

\* case = sum(2**v for v in range(8) if f_eval[v] > 0)
CellCase(cell) == SumSet({2 ^ v : v \in {w \in 0..7 : f_eval(cell, w) > 0}})

\* edge_to_boundary_vertex(edge) inside the cell with lower corner (x, y, z)
edge_to_boundary_vertex(cell, edge) ==
    LET v0 == EDGES(edge)[1]
        v1 == EDGES(edge)[2]
        a  == adapt(f_eval(cell, v0), f_eval(cell, v1))
        t0 == RSub(RInt(CELL_SIZE), a)
        t1 == RSub(RInt(CELL_SIZE), t0)
        C(k) == RAdd(RInt(cell[k]),
                     RAdd(RMul(RInt(VERTICES(v0)[k]), t0),
                          RMul(RInt(VERTICES(v1)[k]), t1)))
    IN  IF a = AssertionError THEN AssertionError ELSE <<C(1), C(2), C(3)>>

\* marching_cubes_3d_single_cell(f, x, y, z): the cell's Mesh; failed when an
\* adapt call raised AssertionError
marching_cubes_3d_single_cell(cell) ==
    LET faces == cases(CellCase(cell))
        output_verts == [i \in 1..(3 * Len(faces)) |->
                            edge_to_boundary_vertex(cell,
                                faces[((i - 1) \div 3) + 1][((i - 1) % 3) + 1])]
        output_tris == [k \in 1..Len(faces) |->
                            Tri(3 * (k - 1) + 1, 3 * (k - 1) + 2, 3 * (k - 1) + 3)]
    IN  [failed |-> \E i \in 1..Len(output_verts) : output_verts[i] = AssertionError,
         mesh |-> Mesh(output_verts, output_tris)]

\* the cells in the order of the three nested loops (x outermost)
Cells3(d) ==
    [i \in 1..(d[1] * d[2] * d[3]) |->
        << (i - 1) \div (d[2] * d[3]),
           ((i - 1) \div d[3]) % d[2],
           (i - 1) % d[3] >>]

\* the grid corners f is sampled at
Corners3(d) == (0..d[1]) \X (0..d[2]) \X (0..d[3])

\* marching_cubes_3d: one iteration of the innermost loop
MC3Cell ==
    /\ alg = "mc3"
    /\ tpc = "cells"
    /\ LET cell_mesh == marching_cubes_3d_single_cell(Cells3(dims)[cur])
       IN  IF cell_mesh.failed
             THEN /\ tpc' = "failed"
                  /\ mesh' = mesh
             ELSE /\ mesh' = MeshExtend(mesh, cell_mesh.mesh)
                  /\ tpc' = IF cur = Len(Cells3(dims)) THEN "done" ELSE "cells"
    /\ cur' = cur + 1
    /\ UNCHANGED <<alg, dims, field, ADAPTIVE, edges, verts, vert_array, vert_indices, fprop, dc_faces>>
    /\ UNCHANGED <<genVars, qefVars, heapVars>>

-----------------------------------------------------------------------------
(* 2D values: V2 is a record of two rationals; "no vertex" is None *)

V2(x, y) == [x |-> x, y |-> y]

None == [none |-> TRUE]
IsNone(v) == "none" \in DOMAIN v

\* f(x, y)
F2(x, y) == field[<<x, y>>]

\* the cells of a 2D grid in the order of the two nested loops (x outermost)
Cells2(d) == [i \in 1..(d[1] * d[2]) |-> << (i - 1) \div d[2], (i - 1) % d[2] >>]

Corners2(d) == (0..d[1]) \X (0..d[2])

-----------------------------------------------------------------------------
(* marching_cubes_2d_prop.py *)

\* Edge(v1, v2, prop)
PropEdge(v1, v2, prop) == [v1 |-> v1, v2 |-> v2, prop |-> prop]

\* split_edge(v1, v2, prop1, prop2)
split_edge(v1, v2, prop1, prop2) ==
    IF prop1 = prop2
      THEN << PropEdge(v1, v2, prop1) >>
      ELSE LET mid_point == V2(RMul(RAdd(v1.x, v2.x), Rat(1, 2)),
                               RMul(RAdd(v1.y, v2.y), Rat(1, 2)))
           IN  << PropEdge(v1, mid_point, prop1), PropEdge(mid_point, v2, prop2) >>

\* a crossing whose property goes to the second corner from offset 0.5 on
Crossing_tie_to_second(cell, c0, c1, side, q0, q1) ==
    LET a == adapt(F2(cell[1] + c0[1] * CELL_SIZE, cell[2] + c0[2] * CELL_SIZE),
                   F2(cell[1] + c1[1] * CELL_SIZE, cell[2] + c1[2] * CELL_SIZE))
        x == RInt(cell[1])
        y == RInt(cell[2])
        P(q) == fprop[<<cell[1] + q[1] * CELL_SIZE, cell[2] + q[2] * CELL_SIZE>>]
    IN  IF a = AssertionError
          THEN [failed |-> TRUE]
          ELSE [failed |-> FALSE,
                a |-> a,
                v |-> CASE side = "bottom" -> V2(RAdd(x, a), y)
                        [] side = "left"   -> V2(x, RAdd(y, a))
                        [] side = "top"    -> V2(RAdd(x, a), RAdd(y, RInt(CELL_SIZE)))
                        [] side = "right"  -> V2(RAdd(x, RInt(CELL_SIZE)), RAdd(y, a)),
                p |-> IF RLess(a, Rat(1, 2)) THEN P(q0) ELSE P(q1)]

\* One crossing of a branch of marching_cubes_2d_single_cell: the offset
\* a = adapt(sample at c0, sample at c1), the vertex on the named side of the
\* cell, and the property p = (property at q0) if a <= 0.5 else (property at q1).
\* Corners are offsets <<dx, dy>> from the cell's lower corner.
Crossing(cell, c0, c1, side, q0, q1) ==
    LET a == adapt(F2(cell[1] + c0[1] * CELL_SIZE, cell[2] + c0[2] * CELL_SIZE),
                   F2(cell[1] + c1[1] * CELL_SIZE, cell[2] + c1[2] * CELL_SIZE))
        x == RInt(cell[1])
        y == RInt(cell[2])
        P(q) == fprop[<<cell[1] + q[1] * CELL_SIZE, cell[2] + q[2] * CELL_SIZE>>]
    IN  IF a = AssertionError
          THEN [failed |-> TRUE]
          ELSE [failed |-> FALSE,
                a |-> a,
                v |-> CASE side = "bottom" -> V2(RAdd(x, a), y)
                        [] side = "left"   -> V2(x, RAdd(y, a))
                        [] side = "top"    -> V2(RAdd(x, a), RAdd(y, RInt(CELL_SIZE)))
                        [] side = "right"  -> V2(RAdd(x, RInt(CELL_SIZE)), RAdd(y, a)),
                p |-> IF RLeq(a, Rat(1, 2)) THEN P(q0) ELSE P(q1)]

\* the corners x0y0, x0y1, x1y0, x1y1
X0Y0 == <<0, 0>>
X0Y1 == <<0, 1>>
X1Y0 == <<1, 0>>
X1Y1 == <<1, 1>>

\* case of the cell
Case2(cell) ==
    (IF F2(cell[1], cell[2]) > 0 THEN 1 ELSE 0) +
    (IF F2(cell[1], cell[2] + CELL_SIZE) > 0 THEN 2 ELSE 0) +
    (IF F2(cell[1] + CELL_SIZE, cell[2]) > 0 THEN 4 ELSE 0) +
    (IF F2(cell[1] + CELL_SIZE, cell[2] + CELL_SIZE) > 0 THEN 8 ELSE 0)

\* The branch taken for `case`: for each of its vertices v1, v2 (v3, v4) the two
\* corners given to adapt, the side of the cell the vertex lies on, and the two
\* corners whose property is chosen between.
Branch2(case) ==
    CASE case \in {1, 14} ->
           << <<X0Y0, X1Y0, "bottom", X0Y0, X1Y0>>,
              <<X0Y0, X0Y1, "left", X0Y0, X0Y1>> >>
      [] case \in {2, 13} ->
           << <<X0Y0, X0Y1, "left", X0Y0, X0Y1>>,
              <<X0Y1, X1Y1, "top", X0Y1, X1Y1>> >>
      [] case \in {4, 11} ->
           << <<X1Y0, X1Y1, "right", X1Y0, X1Y1>>,
              <<X0Y0, X1Y0, "bottom", X0Y0, X1Y0>> >>
      [] case \in {8, 7} ->
           << <<X0Y1, X1Y1, "top", X0Y1, X1Y1>>,
              <<X1Y0, X1Y1, "right", X1Y0, X1Y1>> >>
      [] case \in {3, 12} ->
           << <<X0Y0, X1Y0, "bottom", X0Y0, X1Y0>>,
              <<X0Y1, X1Y1, "top", X0Y1, X1Y1>> >>
      [] case \in {5, 10} ->
           << <<X0Y0, X0Y1, "left", X0Y0, X0Y1>>,
              <<X1Y0, X1Y1, "right", X1Y0, X1Y1>> >>
      [] case = 9 ->
           << <<X0Y0, X0Y1, "bottom", X0Y0, X1Y0>>,
              <<X0Y0, X0Y1, "left", X0Y0, X0Y1>>,
              <<X0Y1, X1Y1, "top", X0Y1, X1Y1>>,
              <<X1Y0, X1Y1, "right", X1Y0, X1Y1>> >>
      [] case = 6 ->
           << <<X1Y0, X1Y1, "right", X1Y0, X1Y1>>,
              <<X0Y0, X1Y0, "bottom", X0Y0, X1Y0>>,
              <<X0Y0, X0Y1, "left", X0Y0, X0Y1>>,
              <<X0Y1, X1Y1, "top", X0Y1, X1Y1>> >>
      [] OTHER -> <<>>

\* marching_cubes_2d_single_cell(f, f_property, x, y): the list of edges;
\* failed when an adapt call raised AssertionError
marching_cubes_2d_single_cell(cell) ==
    LET b == Branch2(Case2(cell))
        c == [i \in 1..Len(b) |-> Crossing(cell, b[i][1], b[i][2], b[i][3], b[i][4], b[i][5])]
        failed == \E i \in 1..Len(c) : c[i].failed
    IN  [failed |-> failed,
         edges |->
            IF failed \/ Len(c) = 0 THEN <<>>
            ELSE IF Len(c) = 2
              THEN split_edge(c[1].v, c[2].v, c[1].p, c[2].p)
              ELSE split_edge(c[1].v, c[2].v, c[1].p, c[2].p)
                     \o split_edge(c[3].v, c[4].v, c[3].p, c[4].p)]

\* marching_cubes_2d: one iteration of the inner loop
MC2Cell ==
    /\ alg = "mc2"
    /\ tpc = "cells"
    /\ LET r == marching_cubes_2d_single_cell(Cells2(dims)[cur])
       IN  IF r.failed
             THEN /\ tpc' = "failed"
                  /\ edges' = edges
             ELSE /\ edges' = edges \o r.edges
                  /\ tpc' = IF cur = Len(Cells2(dims)) THEN "done" ELSE "cells"
    /\ cur' = cur + 1
    /\ UNCHANGED <<alg, dims, field, ADAPTIVE, mesh, verts, vert_array, vert_indices, fprop, dc_faces>>
    /\ UNCHANGED <<genVars, qefVars, heapVars>>

-----------------------------------------------------------------------------
(* dual_contour_2d.py *)

\* Edge(v1, v2) of common.py
Edge(v1, v2) == [v1 |-> v1, v2 |-> v2]

\* Edge.swap(swap)
EdgeSwap(e, swap) == IF swap THEN Edge(e.v2, e.v1) ELSE Edge(e.v1, e.v2)

\* the V2 that solve_qef_2d(x, y, changes, normals) returns for a cell: its
\* position is decided by the normals f_normal supplies (see SpecQEF); the
\* traversal only stores it and passes it on
PlacedV2(x, y, changes) == [cell |-> <<x, y>>, changes |-> changes]

\* the list `changes` of dual_contour_2d_find_best_vertex
Changes2(x, y) ==
    LET x0y0 == F2(x, y)
        x0y1 == F2(x, y + CELL_SIZE)
        x1y0 == F2(x + CELL_SIZE, y)
        x1y1 == F2(x + CELL_SIZE, y + CELL_SIZE)
    IN  (IF (x0y0 > 0) # (x0y1 > 0)
           THEN << <<RInt(x), RAdd(RInt(y), adapt(x0y0, x0y1))>> >> ELSE <<>>)
        \o (IF (x1y0 > 0) # (x1y1 > 0)
           THEN << <<RInt(x + CELL_SIZE), RAdd(RInt(y), adapt(x1y0, x1y1))>> >> ELSE <<>>)
        \o (IF (x0y0 > 0) # (x1y0 > 0)
           THEN << <<RAdd(RInt(x), adapt(x0y0, x1y0)), RInt(y)>> >> ELSE <<>>)
        \o (IF (x0y1 > 0) # (x1y1 > 0)
           THEN << <<RAdd(RInt(x), adapt(x0y1, x1y1)), RInt(y + CELL_SIZE)>> >> ELSE <<>>)

\* the pairs of samples dual_contour_2d_find_best_vertex passes to adapt:
\* those of the four sides of the cell that pass the `if` before the call
AdaptArgs2(x, y) ==
    LET x0y0 == F2(x, y)
        x0y1 == F2(x, y + CELL_SIZE)
        x1y0 == F2(x + CELL_SIZE, y)
        x1y1 == F2(x + CELL_SIZE, y + CELL_SIZE)
    IN  SelectSeq(<< <<x0y0, x0y1>>, <<x1y0, x1y1>>, <<x0y0, x1y0>>, <<x0y1, x1y1>> >>,
                  LAMBDA a : (a[1] > 0) # (a[2] > 0))

\* a vertex placer that asks for more than two sign changes
dual_contour_2d_find_best_vertex_over_two(x, y) ==
    IF ~ADAPTIVE
      THEN V2(RAdd(RInt(x), RMul(Rat(1, 2), RInt(CELL_SIZE))),
              RAdd(RInt(y), RMul(Rat(1, 2), RInt(CELL_SIZE))))
      ELSE IF Len(Changes2(x, y)) <= 2
             THEN None
             ELSE PlacedV2(x, y, Changes2(x, y))

\* dual_contour_2d_find_best_vertex(f, f_normal, x, y)
dual_contour_2d_find_best_vertex(x, y) ==
    IF ~ADAPTIVE
      THEN V2(RAdd(RInt(x), RMul(Rat(1, 2), RInt(CELL_SIZE))),
              RAdd(RInt(y), RMul(Rat(1, 2), RInt(CELL_SIZE))))
      ELSE IF Len(Changes2(x, y)) <= 1
             THEN None
             ELSE PlacedV2(x, y, Changes2(x, y))

\* the iterations of the loop over vertical sign changes that pass `if ix == 0: continue`
VerticalCells(d) == SelectSeq(Cells2(d), LAMBDA c : c[1] # 0)

\* the iterations of the loop over horizontal sign changes that pass `if iy == 0: continue`;
\* here iy is the outer loop
HorizontalCells(d) ==
    [i \in 1..(d[1] * (d[2] - 1)) |-> << (i - 1) % d[1], 1 + ((i - 1) \div d[1]) >>]

\* the position after a loop of dual_contour_2d has ended
AfterVerts2 ==
    IF Len(VerticalCells(dims)) > 0 THEN "vertical"
    ELSE IF Len(HorizontalCells(dims)) > 0 THEN "horizontal" ELSE "done"

AfterVertical2 == IF Len(HorizontalCells(dims)) > 0 THEN "horizontal" ELSE "done"

\* first loop: verts[ix, iy] = dual_contour_2d_find_best_vertex(f, f_normal, x, y)
DC2Vertex ==
    /\ alg = "dc2"
    /\ tpc = "verts"
    /\ LET c == Cells2(dims)[cur]
       IN  verts' = DictPut(verts, c, dual_contour_2d_find_best_vertex(c[1], c[2]))
    /\ IF cur = Len(Cells2(dims))
         THEN tpc' = AfterVerts2 /\ cur' = 1
         ELSE tpc' = tpc /\ cur' = cur + 1
    /\ UNCHANGED <<alg, dims, field, ADAPTIVE, mesh, edges, vert_array, vert_indices, fprop, dc_faces>>
    /\ UNCHANGED <<genVars, qefVars, heapVars>>

\* y0_solid != y1_solid on the grid edge from (x, y) to (x, y + CELL_SIZE)
VerticalChange(x, y) == (F2(x, y) > 0) # (F2(x, y + CELL_SIZE) > 0)

\* x0_solid != x1_solid on the grid edge from (x, y) to (x + CELL_SIZE, y)
HorizontalChange(x, y) == (F2(x, y) > 0) # (F2(x + CELL_SIZE, y) > 0)

\* second loop, one iteration: the vertical grid edge at the cell's lower corner
DC2Vertical ==
    /\ alg = "dc2"
    /\ tpc = "vertical"
    /\ LET c == VerticalCells(dims)[cur]
           ix == c[1]
           iy == c[2]
           y0_solid == F2(ix, iy) > 0
       IN  edges' = IF VerticalChange(ix, iy)
                      THEN Append(edges, EdgeSwap(Edge(verts[<<ix - 1, iy>>], verts[<<ix, iy>>]), y0_solid))
                      ELSE edges
    /\ IF cur = Len(VerticalCells(dims))
         THEN tpc' = AfterVertical2 /\ cur' = 1
         ELSE tpc' = tpc /\ cur' = cur + 1
    /\ UNCHANGED <<alg, dims, field, ADAPTIVE, mesh, verts, vert_array, vert_indices, fprop, dc_faces>>
    /\ UNCHANGED <<genVars, qefVars, heapVars>>

\* third loop, one iteration: the horizontal grid edge at the cell's lower corner
DC2Horizontal ==
    /\ alg = "dc2"
    /\ tpc = "horizontal"
    /\ LET c == HorizontalCells(dims)[cur]
           ix == c[1]
           iy == c[2]
           x0_solid == F2(ix, iy) > 0
       IN  edges' = IF HorizontalChange(ix, iy)
                      THEN Append(edges, EdgeSwap(Edge(verts[<<ix, iy - 1>>], verts[<<ix, iy>>]), x0_solid))
                      ELSE edges
    /\ IF cur = Len(HorizontalCells(dims))
         THEN tpc' = "done" /\ cur' = cur
         ELSE tpc' = tpc /\ cur' = cur + 1
    /\ UNCHANGED <<alg, dims, field, ADAPTIVE, mesh, verts, vert_array, vert_indices, fprop, dc_faces>>
    /\ UNCHANGED <<genVars, qefVars, heapVars>>

-----------------------------------------------------------------------------
(* dual_contour_3d.py *)

USE_TRI == FALSE

V3(x, y, z) == [x |-> x, y |-> y, z |-> z]

\* the V3 that solve_qef_3d(x, y, z, changes, normals) returns for a cell
PlacedV3(x, y, z, changes) == [cell |-> <<x, y, z>>, changes |-> changes]

\* v[dx, dy, dz] of the cell at (x, y, z)
Corner3(x, y, z, dx, dy, dz) == F3(x + dx * CELL_SIZE, y + dy * CELL_SIZE, z + dz * CELL_SIZE)

\* the four (da, db) of two nested loops `for da in (0, 1): for db in (0, 1)`
Pairs01 == << <<0, 0>>, <<0, 1>>, <<1, 0>>, <<1, 1>> >>

RECURSIVE Concat(_)
Concat(ss) == IF ss = <<>> THEN <<>> ELSE Head(ss) \o Concat(Tail(ss))

\* the list `changes` of dual_contour_3d_find_best_vertex
Changes3(x, y, z) ==
    LET V(dx, dy, dz) == Corner3(x, y, z, dx, dy, dz)
        alongZ == [i \in 1..4 |->
            LET dx == Pairs01[i][1]
                dy == Pairs01[i][2]
            IN  IF (V(dx, dy, 0) > 0) # (V(dx, dy, 1) > 0)
                  THEN << << RInt(x + dx * CELL_SIZE), RInt(y + dy * CELL_SIZE),
                             RAdd(RInt(z), adapt(V(dx, dy, 0), V(dx, dy, 1))) >> >>
                  ELSE <<>>]
        alongY == [i \in 1..4 |->
            LET dx == Pairs01[i][1]
                dz == Pairs01[i][2]
            IN  IF (V(dx, 0, dz) > 0) # (V(dx, 1, dz) > 0)
                  THEN << << RInt(x + dx * CELL_SIZE),
                             RAdd(RInt(y), adapt(V(dx, 0, dz), V(dx, 1, dz))),
                             RInt(z + dz * CELL_SIZE) >> >>
                  ELSE <<>>]
        alongX == [i \in 1..4 |->
            LET dy == Pairs01[i][1]
                dz == Pairs01[i][2]
            IN  IF (V(0, dy, dz) > 0) # (V(1, dy, dz) > 0)
                  THEN << << RAdd(RInt(x), adapt(V(0, dy, dz), V(1, dy, dz))),
                             RInt(y + dy * CELL_SIZE), RInt(z + dz * CELL_SIZE) >> >>
                  ELSE <<>>]
    IN  Concat(alongZ) \o Concat(alongY) \o Concat(alongX)

\* the pairs of samples dual_contour_3d_find_best_vertex passes to adapt:
\* those of the 12 edges of the cell that pass the `if` before the call
AdaptArgs3(x, y, z) ==
    LET V(dx, dy, dz) == Corner3(x, y, z, dx, dy, dz)
        alongZ == [i \in 1..4 |-> <<V(Pairs01[i][1], Pairs01[i][2], 0),
                                    V(Pairs01[i][1], Pairs01[i][2], 1)>>]
        alongY == [i \in 1..4 |-> <<V(Pairs01[i][1], 0, Pairs01[i][2]),
                                    V(Pairs01[i][1], 1, Pairs01[i][2])>>]
        alongX == [i \in 1..4 |-> <<V(0, Pairs01[i][1], Pairs01[i][2]),
                                    V(1, Pairs01[i][1], Pairs01[i][2])>>]
    IN  SelectSeq(alongZ \o alongY \o alongX, LAMBDA a : (a[1] > 0) # (a[2] > 0))

\* dual_contour_3d_find_best_vertex(f, f_normal, x, y, z)
dual_contour_3d_find_best_vertex(x, y, z) ==
    IF ~ADAPTIVE
      THEN V3(RAdd(RInt(x), RMul(Rat(1, 2), RInt(CELL_SIZE))),
              RAdd(RInt(y), RMul(Rat(1, 2), RInt(CELL_SIZE))),
              RAdd(RInt(z), RMul(Rat(1, 2), RInt(CELL_SIZE))))
      ELSE IF Len(Changes3(x, y, z)) <= 1
             THEN None
             ELSE PlacedV3(x, y, z, Changes3(x, y, z))

\* first loop nest of dual_contour_3d, one cell
DC3Vertex ==
    /\ alg = "dc3"
    /\ tpc = "verts"
    /\ LET c == Cells3(dims)[cur]
           vert == dual_contour_3d_find_best_vertex(c[1], c[2], c[3])
       IN  IF IsNone(vert)
             THEN UNCHANGED <<vert_array, vert_indices>>
             ELSE /\ vert_array' = Append(vert_array, vert)
                  /\ vert_indices' = DictPut(vert_indices, c, Len(vert_array) + 1)
    /\ IF cur = Len(Cells3(dims))
         THEN tpc' = "faces" /\ cur' = 1
         ELSE tpc' = tpc /\ cur' = cur + 1
    /\ UNCHANGED <<alg, dims, field, ADAPTIVE, mesh, edges, verts, fprop, dc_faces>>
    /\ UNCHANGED <<genVars, qefVars, heapVars>>

\* The three `if` statements of the second loop nest for the cell at (ix, iy, iz),
\* in order. Each has its guard, the sign test, the four cells whose vertices
\* the Quad joins (in the order written) and the argument of swap.
FaceStmts(ix, iy, iz) ==
    << [guard |-> ix > 0 /\ iy > 0,
        change |-> (F3(ix, iy, iz) > 0) # (F3(ix, iy, iz + CELL_SIZE) > 0),
        keys |-> << <<ix - 1, iy - 1, iz>>, <<ix, iy - 1, iz>>,
                    <<ix, iy, iz>>, <<ix - 1, iy, iz>> >>,
        swap |-> F3(ix, iy, iz + CELL_SIZE) > 0],
       [guard |-> ix > 0 /\ iz > 0,
        change |-> (F3(ix, iy, iz) > 0) # (F3(ix, iy + CELL_SIZE, iz) > 0),
        keys |-> << <<ix - 1, iy, iz - 1>>, <<ix, iy, iz - 1>>,
                    <<ix, iy, iz>>, <<ix - 1, iy, iz>> >>,
        swap |-> F3(ix, iy, iz) > 0],
       [guard |-> iy > 0 /\ iz > 0,
        change |-> (F3(ix, iy, iz) > 0) # (F3(ix + CELL_SIZE, iy, iz) > 0),
        keys |-> << <<ix, iy - 1, iz - 1>>, <<ix, iy, iz - 1>>,
                    <<ix, iy, iz>>, <<ix, iy - 1, iz>> >>,
        swap |-> F3(ix + CELL_SIZE, iy, iz) > 0] >>

\* a second pass that does not test solid1 != solid2
Emits_without_sign_test(st) == st.guard

\* a statement appends a face
Emits(st) == st.guard /\ st.change

\* the statement raises: KeyError on a cell without vertex, AttributeError
\* with USE_TRI (Tri has no swap)
Raises(st) ==
    Emits(st) /\ (USE_TRI \/ \E k \in 1..4 : st.keys[k] \notin DOMAIN vert_indices)

\* the Quad the statement appends
StmtQuad(st) ==
    QuadSwap(Quad(vert_indices[st.keys[1]], vert_indices[st.keys[2]],
                  vert_indices[st.keys[3]], vert_indices[st.keys[4]]), st.swap)

\* the faces the statements append, up to the first one that raises
RECURSIVE StmtFaces(_)
StmtFaces(sts) ==
    IF sts = <<>> \/ Raises(Head(sts)) THEN <<>>
    ELSE (IF Emits(Head(sts)) THEN << StmtQuad(Head(sts)) >> ELSE <<>>)
           \o StmtFaces(Tail(sts))

\* second loop nest of dual_contour_3d, one cell; after the last cell
\* `return Mesh(vert_array, faces)`
DC3Faces ==
    /\ alg = "dc3"
    /\ tpc = "faces"
    /\ LET c == Cells3(dims)[cur]
           sts == FaceStmts(c[1], c[2], c[3])
       IN  /\ dc_faces' = dc_faces \o StmtFaces(sts)
           /\ IF \E k \in 1..3 : Raises(sts[k])
                THEN tpc' = "failed" /\ mesh' = mesh
                ELSE IF cur = Len(Cells3(dims))
                       THEN tpc' = "done" /\ mesh' = Mesh(vert_array, dc_faces')
                       ELSE tpc' = tpc /\ mesh' = mesh
    /\ cur' = cur + 1
    /\ UNCHANGED <<alg, dims, field, ADAPTIVE, edges, verts, vert_array, vert_indices, fprop>>
    /\ UNCHANGED <<genVars, qefVars, heapVars>>

TravIdle ==
    /\ alg = "none"
    /\ dims = <<0, 0, 0>>
    /\ field = <<>>
    /\ ADAPTIVE = TRUE
    /\ tpc = "idle"
    /\ cur = 0
    /\ mesh = Mesh(<<>>, <<>>)
    /\ edges = <<>>
    /\ verts = <<>>
    /\ vert_array = <<>>
    /\ vert_indices = <<>>
    /\ fprop = <<>>
    /\ dc_faces = <<>>

\* the state a traversal starts in: empty accumulators
TravStart ==
    /\ tpc = IF alg \in {"mc3", "mc2"} THEN "cells" ELSE "verts"
    /\ cur = 1
    /\ mesh = Mesh(<<>>, <<>>)
    /\ edges = <<>>
    /\ verts = <<>>
    /\ vert_array = <<>>
    /\ vert_indices = <<>>
    /\ dc_faces = <<>>

-----------------------------------------------------------------------------
(* qef.py. Numbers are exact rationals; numpy.linalg.lstsq is a library, and *)
(* the solution vector it returns is an input of the model.                 *)

\* settings.BIAS_STRENGTH = 0.01
BIAS_STRENGTH == Rat(1, 100)

\* an entry of fixed_values other than None
Fixed(value) == [value |-> value]

\* QEF(A, b, fixed_values); A is the list of its rows
QEF(A, b, fixed_values) == [A |-> A, b |-> b, fixed_values |-> fixed_values]

RECURSIVE RSum(_)
RSum(seq) == IF seq = <<>> THEN RInt(0) ELSE RAdd(Head(seq), RSum(Tail(seq)))

\* v[0] * n[0] + v[1] * n[1] (+ v[2] * n[2])
Dot(v, n) == RSum([k \in 1..Len(n) |-> RMul(v[k], n[k])])

\* a make_2d that pairs each coordinate with the other component of the normal
make_2d_crossed_components(p, n) ==
    QEF(n, [i \in 1..Len(n) |-> RAdd(RMul(p[i][1], n[i][2]), RMul(p[i][2], n[i][1]))],
        <<None, None>>)

\* QEF.make_2d(positions, normals)
make_2d(p, n) ==
    QEF(n, [i \in 1..Len(n) |-> RAdd(RMul(p[i][1], n[i][1]), RMul(p[i][2], n[i][2]))],
        <<None, None>>)

\* QEF.make_3d(positions, normals)
make_3d(p, n) ==
    QEF(n, [i \in 1..Len(n) |->
               RAdd(RAdd(RMul(p[i][1], n[i][1]), RMul(p[i][2], n[i][2])),
                    RMul(p[i][3], n[i][3]))],
        <<None, None, None>>)

\* numpy.delete(row, axis): the row without its entry at 0-based index axis
DeleteAt(row, axis) ==
    [j \in 1..(Len(row) - 1) |-> IF j <= axis THEN row[j] ELSE row[j + 1]]

\* QEF.fix_axis(axis, value); axis is 0-based
fix_axis(self, axis, value) ==
    QEF([i \in 1..Len(self.A) |-> DeleteAt(self.A[i], axis)],
        [i \in 1..Len(self.b) |-> RSub(self.b[i], RMul(self.A[i][axis + 1], value))],
        [self.fixed_values EXCEPT ![axis + 1] = Fixed(value)])

\* the square of QEF.evaluate(x) = norm(A x - b)
evaluate_squared(self, x) ==
    RSum([i \in 1..Len(self.A) |->
            LET d == RSub(Dot(x, self.A[i]), self.b[i]) IN RMul(d, d)])

\* A residual is the number `sq` itself, or, with `root`, its square root.
Residual(sq, root) == [sq |-> sq, root |-> root]

\* (residual, position); `tuple` tells a tuple position from a list
Candidate(residual, v, tuple) == [residual |-> residual, v |-> v, tuple |-> tuple]

\* QEF.eval_with_pos(x), x a tuple
eval_with_pos(self, x) == Candidate(Residual(evaluate_squared(self, x), TRUE), x, TRUE)

\* the determinant of the rows r1, r2 (2 columns) and r1, r2, r3 (3 columns)
Det2(r1, r2) == RSub(RMul(r1[1], r2[2]), RMul(r1[2], r2[1]))
Det3(r1, r2, r3) ==
    RAdd(RSub(RMul(r1[1], Det2(<<r2[2], r2[3]>>, <<r3[2], r3[3]>>)),
              RMul(r1[2], Det2(<<r2[1], r2[3]>>, <<r3[1], r3[3]>>))),
         RMul(r1[3], Det2(<<r2[1], r2[2]>>, <<r3[1], r3[2]>>)))

\* the rank of A equals its number of columns
FullColumnRank(A) ==
    LET m == Len(A)
        zero == RInt(0)
    IN  CASE Len(A[1]) = 1 -> \E i \in 1..m : A[i][1] # zero
          [] Len(A[1]) = 2 -> \E i, j \in 1..m : Det2(A[i], A[j]) # zero
          [] Len(A[1]) = 3 -> \E i, j, k \in 1..m : Det3(A[i], A[j], A[k]) # zero
          [] OTHER -> TRUE

\* lstsq returns an empty `residual` unless A has more rows than columns and
\* full column rank
ResidualsEmpty(A) == ~(Len(A) > Len(A[1]) /\ FullColumnRank(A))

\* the number of entries of fixed_values before index k that are None
FreeBefore(fixed_values, k) ==
    Cardinality({j \in 1..(k - 1) : IsNone(fixed_values[j])})

\* QEF.solve(), `result` being the solution lstsq returned
solve(self, result) ==
    LET full == [k \in 1..Len(self.fixed_values) |->
                    IF IsNone(self.fixed_values[k])
                      THEN result[FreeBefore(self.fixed_values, k) + 1]
                      ELSE self.fixed_values[k].value]
        sumsq == RSum([i \in 1..Len(self.A) |->
                        LET d == RSub(Dot(result, self.A[i]), self.b[i]) IN RMul(d, d)])
    IN  Candidate(Residual(sumsq, ResidualsEmpty(self.A)), full, FALSE)

RDiv(a, b) == Rat(a[1] * b[2], a[2] * b[1])

\* the determinant of a square matrix of up to 3 rows
Det(M) ==
    CASE Len(M) = 1 -> M[1][1]
      [] Len(M) = 2 -> Det2(M[1], M[2])
      [] Len(M) = 3 -> Det3(M[1], M[2], M[3])

\* M with column k replaced by y
ReplaceCol(M, k, y) ==
    [i \in 1..Len(M) |-> [j \in 1..Len(M) |-> IF j = k THEN y[i] ELSE M[i][j]]]

\* numpy.linalg.lstsq(A, b, rcond=None)[0] for A of full column rank: the one
\* x that minimizes norm(A x - b), the solution of (A^T A) x = A^T b
lstsq(A, b) ==
    LET m == Len(A)
        n == Len(A[1])
        AtA == [i \in 1..n |-> [j \in 1..n |->
                   RSum([r \in 1..m |-> RMul(A[r][i], A[r][j])])]]
        Atb == [i \in 1..n |-> RSum([r \in 1..m |-> RMul(A[r][i], b[r])])]
        D == Det(AtA)
    IN  [k \in 1..n |-> RDiv(Det(ReplaceCol(AtA, k, Atb)), D)]

\* the order of two residuals as numbers
ResidualLess(r1, r2) ==
    CASE r1.root = r2.root -> RLess(r1.sq, r2.sq)
      [] r1.root /\ ~r2.root -> RLess(r1.sq, RMul(r2.sq, r2.sq))
      [] OTHER -> RLess(RMul(r1.sq, r1.sq), r2.sq)

ResidualEq(r1, r2) == ~ResidualLess(r1, r2) /\ ~ResidualLess(r2, r1)

\* the order of two positions as Python sequences
PositionLess(v, w) ==
    \E k \in 1..Len(v) :
        /\ RLess(v[k], w[k])
        /\ \A j \in 1..(k - 1) : v[j] = w[j]

\* r1 < r2 for tuples (residual, position)
CandidateLess(r1, r2) ==
    \/ ResidualLess(r1.residual, r2.residual)
    \/ ResidualEq(r1.residual, r2.residual) /\ PositionLess(r1.v, r2.v)

\* min(rs): the first element no other element is less than
Min(list) ==
    list[CHOOSE i \in 1..Len(list) :
            /\ \A j \in 1..Len(list) : ~CandidateLess(list[j], list[i])
            /\ \A j \in 1..(i - 1) : CandidateLess(list[i], list[j])]

\* an inside(r) that tests the lower bounds only
inside_without_upper_bound(o, r) ==
    \A k \in 1..Len(o) : RLeq(RInt(o[k]), r.v[k])

\* inside(r) of solve_qef_2d / solve_qef_3d for the cell at o
inside(o, r) ==
    \A k \in 1..Len(o) :
        RLeq(RInt(o[k]), r.v[k]) /\ RLeq(r.v[k], RInt(o[k] + CELL_SIZE))

\* numpy.clip(a, lo, hi)
clip(a, lo, hi) == IF RLess(a, lo) THEN lo ELSE IF RLess(hi, a) THEN hi ELSE a

\* what lstsq may answer for a free coordinate, as an offset from the cell
\* origin: a point of the cell, one below it and one above it
Answers == [in |-> Rat(1, 2), low |-> RInt(-1), high |-> RInt(2)]

\* the axes of self that are not fixed, in order
FreeAxes(self) ==
    SelectSeq([k \in 1..Len(self.fixed_values) |-> k],
              LAMBDA k : IsNone(self.fixed_values[k]))

\* the solution whose free coordinates all are the answer `kind`, for the cell at o
Solution(self, o, kind) ==
    [i \in 1..Len(FreeAxes(self)) |-> RAdd(RInt(o[FreeAxes(self)[i]]), Answers[kind])]

\* at most MaxInside of the constrained solves of one tier answer inside the cell
MaxInside == 2

\* the answers of the n solves of a tier: up to MaxInside of them inside,
\* the others all below or all above the cell
TierAnswers(n) ==
    { [i \in 1..n |-> IF i \in S THEN "in" ELSE out] :
        S \in UpTo(1..n, MaxInside), out \in {"low", "high"} }

\* the answers of the unconstrained solve, one per axis
FirstAnswers(d) == [1..d -> DOMAIN Answers]

\* the chains of fix_axis calls of a tier, each call as <<axis, 0 or 1>> for
\* fix_axis(axis, origin[axis] + 0) or fix_axis(axis, origin[axis] + CELL_SIZE)
Faces2 == << << <<0, 0>> >>, << <<0, 1>> >>, << <<1, 0>> >>, << <<1, 1>> >> >>

Faces3 ==
    << << <<0, 0>> >>, << <<0, 1>> >>, << <<1, 0>> >>, << <<1, 1>> >>,
       << <<2, 0>> >>, << <<2, 1>> >> >>

Edges3 ==
    << << <<1, 0>>, <<0, 0>> >>, << <<1, 1>>, <<0, 0>> >>,
       << <<1, 0>>, <<0, 1>> >>, << <<1, 1>>, <<0, 1>> >>,
       << <<2, 0>>, <<0, 0>> >>, << <<2, 1>>, <<0, 0>> >>,
       << <<2, 0>>, <<0, 1>> >>, << <<2, 1>>, <<0, 1>> >>,
       << <<2, 0>>, <<1, 0>> >>, << <<2, 1>>, <<1, 0>> >>,
       << <<2, 0>>, <<1, 1>> >>, << <<2, 1>>, <<1, 1>> >> >>

\* the corners given to eval_with_pos, as offsets in cells
Corners2D == << <<0, 0>>, <<0, 1>>, <<1, 0>>, <<1, 1>> >>

Corners3D ==
    << <<0, 0, 0>>, <<0, 0, 1>>, <<0, 1, 0>>, <<0, 1, 1>>,
       <<1, 0, 0>>, <<1, 0, 1>>, <<1, 1, 0>>, <<1, 1, 1>> >>

RECURSIVE FixChain(_, _, _)
\* qef.fix_axis(...).fix_axis(...) for a chain
FixChain(self, o, chain) ==
    IF chain = <<>> THEN self
    ELSE FixChain(fix_axis(self, Head(chain)[1],
                           RInt(o[Head(chain)[1] + 1] + Head(chain)[2] * CELL_SIZE)),
                  o, Tail(chain))

\* qef.fix_axis(...).solve() for each chain of a tier and each answer of lstsq
TierSolves(chains) ==
    [i \in 1..Len(chains) |->
        LET q == FixChain(qef, origin, chains[i])
        IN  [kind \in DOMAIN Answers |-> solve(q, Solution(q, origin, kind))]]

\* rs = list(filter(inside, [r1, ..., rn])), given the answers of lstsq
TierCandidates(solves, answers) ==
    SelectSeq([i \in 1..Len(solves) |-> solves[i][answers[i]]],
              LAMBDA c : inside(origin, c))

\* rs = list(filter(inside, [r1, ..., rn])) for the corners
CornerCandidates(corners) ==
    LET r == [i \in 1..Len(corners) |->
                eval_with_pos(qef, [k \in 1..Len(origin) |->
                                      RInt(origin[k] + corners[i][k] * CELL_SIZE)])]
    IN  SelectSeq(r, LAMBDA c : inside(origin, c))

\* numpy.mean(positions, axis=0)
mass_point ==
    [k \in 1..qdim |->
        RMul(RSum([i \in 1..Len(positions) |-> positions[i][k]]), Rat(1, Len(positions)))]

\* the normals appended with BIAS
BiasNormals ==
    [a \in 1..qdim |-> [k \in 1..qdim |-> IF k = a THEN BIAS_STRENGTH ELSE RInt(0)]]

\* solve_qef: `if settings.BIAS` and QEF.make_2d / make_3d
QMake ==
    /\ qpc = "make"
    /\ normals' = IF BIAS THEN normals \o BiasNormals ELSE normals
    /\ positions' = IF BIAS THEN positions \o [a \in 1..qdim |-> mass_point] ELSE positions
    /\ qef' = IF qdim = 2 THEN make_2d(positions', normals') ELSE make_3d(positions', normals')
    /\ qpc' = "solve"
    /\ UNCHANGED <<qdim, origin, BIAS, BOUNDARY, CLIP, best, rs, tier, ret>>
    /\ UNCHANGED <<genVars, travVars, heapVars>>

\* a first step that goes on to the constrained solves whenever BOUNDARY is set
QSolve_always_constrains ==
    /\ qpc = "solve"
    /\ \E answers \in FirstAnswers(qdim) :
           best' = solve(qef, [k \in 1..qdim |-> RAdd(RInt(origin[k]), Answers[answers[k]])])
    /\ tier' = "unconstrained"
    /\ qpc' = IF BOUNDARY THEN "faces" ELSE "clip"
    /\ UNCHANGED <<qdim, origin, positions, normals, BIAS, BOUNDARY, CLIP, qef, rs, ret>>
    /\ UNCHANGED <<genVars, travVars, heapVars>>

\* residual, v = qef.solve() and the tests `if settings.BOUNDARY`, `if not inside(...)`
QSolve ==
    /\ qpc = "solve"
    /\ \E answers \in FirstAnswers(qdim) :
           best' = solve(qef, [k \in 1..qdim |-> RAdd(RInt(origin[k]), Answers[answers[k]])])
    /\ tier' = "unconstrained"
    /\ qpc' = IF BOUNDARY /\ ~inside(origin, best') THEN "faces" ELSE "clip"
    /\ UNCHANGED <<qdim, origin, positions, normals, BIAS, BOUNDARY, CLIP, qef, rs, ret>>
    /\ UNCHANGED <<genVars, travVars, heapVars>>

\* residual, v = qef.solve() alone, lstsq answering the least-squares solution
QSolveExact ==
    /\ qpc = "solve"
    /\ FullColumnRank(qef.A)
    /\ best' = solve(qef, lstsq(qef.A, qef.b))
    /\ tier' = "unconstrained"
    /\ qpc' = "solved"
    /\ UNCHANGED <<qdim, origin, positions, normals, BIAS, BOUNDARY, CLIP, qef, rs, ret>>
    /\ UNCHANGED <<genVars, travVars, heapVars>>

\* residual, v = qef.solve() and the tests that follow it, lstsq answering
\* the least-squares solution
QSolveLstsq ==
    /\ qpc = "solve"
    /\ FullColumnRank(qef.A)
    /\ best' = solve(qef, lstsq(qef.A, qef.b))
    /\ tier' = "unconstrained"
    /\ qpc' = IF BOUNDARY /\ ~inside(origin, best') THEN "faces" ELSE "clip"
    /\ UNCHANGED <<qdim, origin, positions, normals, BIAS, BOUNDARY, CLIP, qef, rs, ret>>
    /\ UNCHANGED <<genVars, travVars, heapVars>>

\* qef.fix_axis(...).solve() for each chain of a tier, lstsq answering the
\* least-squares solution
TierLstsq(chains) ==
    [i \in 1..Len(chains) |->
        LET q == FixChain(qef, origin, chains[i])
        IN  solve(q, lstsq(q.A, q.b))]

\* the solves with one axis fixed, lstsq answering the least-squares solution
QFacesLstsq ==
    /\ qpc = "faces"
    /\ \A i \in 1..Len(Faces2) : FullColumnRank(FixChain(qef, origin, Faces2[i]).A)
    /\ \E solves \in {TierLstsq(Faces2)} :
           rs' = SelectSeq(solves, LAMBDA c : inside(origin, c))
    /\ tier' = "faces"
    /\ qpc' = IF Len(rs') # 0 THEN "pick" ELSE "corners"
    /\ UNCHANGED <<qdim, origin, positions, normals, BIAS, BOUNDARY, CLIP, qef, best, ret>>
    /\ UNCHANGED <<genVars, travVars, heapVars>>

\* qef = qef.fix_axis(axis, value) for an axis not fixed before, one free
\* axis at least being left; self.A[:, axis] raises IndexError when A has no
\* column of that index
QFixAxis ==
    /\ qpc = "solve"
    /\ Len(FreeAxes(qef)) > 1
    /\ \E axis \in 0..(qdim - 1) : \E side \in {0, 1} :
           /\ IsNone(qef.fixed_values[axis + 1])
           /\ IF axis + 1 > Len(qef.A[1])
                THEN qpc' = "raised" /\ ret' = [error |-> "IndexError"] /\ qef' = qef
                ELSE /\ qef' = fix_axis(qef, axis, RInt(origin[axis + 1] + side * CELL_SIZE))
                     /\ qpc' = qpc
                     /\ ret' = ret
    /\ UNCHANGED <<qdim, origin, positions, normals, BIAS, BOUNDARY, CLIP, best, rs, tier>>
    /\ UNCHANGED <<genVars, travVars, heapVars>>

\* qef = qef.fix_axis(axis, value) for any axis, fixed before or not
QFixAny ==
    /\ qpc = "solve"
    /\ \E axis \in 0..(qdim - 1) : \E side \in {0, 1} :
           IF axis + 1 > Len(qef.A[1])
             THEN qpc' = "raised" /\ ret' = [error |-> "IndexError"] /\ qef' = qef
             ELSE /\ qef' = fix_axis(qef, axis, RInt(origin[axis + 1] + side * CELL_SIZE))
                  /\ qpc' = qpc
                  /\ ret' = ret
    /\ UNCHANGED <<qdim, origin, positions, normals, BIAS, BOUNDARY, CLIP, best, rs, tier>>
    /\ UNCHANGED <<genVars, travVars, heapVars>>

\* residual, position = qef.solve() for the QEF reached by fix_axis calls
QSolveFixed ==
    /\ qpc = "solve"
    /\ \E kind \in DOMAIN Answers : best' = solve(qef, Solution(qef, origin, kind))
    /\ qpc' = "solved"
    /\ UNCHANGED <<qdim, origin, positions, normals, BIAS, BOUNDARY, CLIP, qef, rs, tier, ret>>
    /\ UNCHANGED <<genVars, travVars, heapVars>>

\* the solves with one axis fixed: 4 lines in 2D, 6 planes in 3D
QFaces ==
    /\ qpc = "faces"
    /\ \E solves \in {TierSolves(IF qdim = 2 THEN Faces2 ELSE Faces3)} :
           \E answers \in TierAnswers(Len(solves)) :
               rs' = TierCandidates(solves, answers)
    /\ tier' = "faces"
    /\ qpc' = IF Len(rs') # 0 THEN "pick" ELSE IF qdim = 3 THEN "edges" ELSE "corners"
    /\ UNCHANGED <<qdim, origin, positions, normals, BIAS, BOUNDARY, CLIP, qef, best, ret>>
    /\ UNCHANGED <<genVars, travVars, heapVars>>

\* solve_qef_3d: the solves with two axes fixed, the 12 lines
QEdges ==
    /\ qpc = "edges"
    /\ \E solves \in {TierSolves(Edges3)} :
           \E answers \in TierAnswers(Len(solves)) :
               rs' = TierCandidates(solves, answers)
    /\ tier' = "edges"
    /\ qpc' = IF Len(rs') # 0 THEN "pick" ELSE "corners"
    /\ UNCHANGED <<qdim, origin, positions, normals, BIAS, BOUNDARY, CLIP, qef, best, ret>>
    /\ UNCHANGED <<genVars, travVars, heapVars>>

\* the corners of the cell
QCorners ==
    /\ qpc = "corners"
    /\ rs' = CornerCandidates(IF qdim = 2 THEN Corners2D ELSE Corners3D)
    /\ tier' = "corners"
    /\ qpc' = "pick"
    /\ UNCHANGED <<qdim, origin, positions, normals, BIAS, BOUNDARY, CLIP, qef, best, ret>>
    /\ UNCHANGED <<genVars, travVars, heapVars>>

\* residual, v = min(rs); min of an empty list raises ValueError
QPick ==
    /\ qpc = "pick"
    /\ IF Len(rs) = 0
         THEN qpc' = "raised" /\ ret' = [error |-> "ValueError"] /\ best' = best
         ELSE qpc' = "clip" /\ ret' = ret /\ best' = Min(rs)
    /\ UNCHANGED <<qdim, origin, positions, normals, BIAS, BOUNDARY, CLIP, qef, rs, tier>>
    /\ UNCHANGED <<genVars, travVars, heapVars>>

\* `if settings.CLIP` and the return; assigning v[0] of a tuple raises TypeError
QReturn ==
    /\ qpc = "clip"
    /\ IF CLIP /\ best.tuple
         THEN qpc' = "raised" /\ ret' = [error |-> "TypeError"]
         ELSE LET v == IF CLIP
                         THEN [k \in 1..qdim |->
                                 clip(best.v[k], RInt(origin[k]), RInt(origin[k] + CELL_SIZE))]
                         ELSE best.v
              IN  /\ qpc' = "returned"
                  /\ ret' = IF qdim = 2 THEN V2(v[1], v[2]) ELSE V3(v[1], v[2], v[3])
    /\ UNCHANGED <<qdim, origin, positions, normals, BIAS, BOUNDARY, CLIP, qef, best, rs, tier>>
    /\ UNCHANGED <<genVars, travVars, heapVars>>

QefIdle ==
    /\ qpc = "idle"
    /\ qdim = 0
    /\ origin = <<>>
    /\ positions = <<>>
    /\ normals = <<>>
    /\ BIAS = TRUE
    /\ BOUNDARY = TRUE
    /\ CLIP = FALSE
    /\ qef = QEF(<<>>, <<>>, <<>>)
    /\ best = Candidate(Residual(RInt(0), FALSE), <<>>, FALSE)
    /\ rs = <<>>
    /\ tier = "none"
    /\ ret = None

-----------------------------------------------------------------------------
(* utils_3d.py, Mesh objects on the heap.  A Mesh holds references to two    *)
(* list objects; a list object is referred to by its index in `lists`.       *)
(* Vertices are V3 with integer coordinates, faces are Tri and Quad.         *)

\* at most MaxMeshes Mesh objects are created
MaxMeshes == 3

\* no mesh is extended beyond MaxVerts vertices
MaxVerts == 8

\* the number of faces a list holds when memory is exhausted
MemFaces == 6

\* no call was made yet
NoCall == [op |-> "none", self |-> 0, other |-> 0, before |-> <<>>, raised |-> FALSE]

\* no Mesh object exists
MeshIdle ==
    /\ lists = <<>>
    /\ meshes = <<>>
    /\ call = NoCall

\* Mesh.__init__(verts, faces) on heap ls: an argument is the address of a
\* list, or 0 for None; `verts or []` keeps a non-empty list object and
\* replaces None and an empty list by a new one
Mesh_init(ls, verts_arg, faces_arg) ==
    LET fresh_v == verts_arg = 0 \/ ls[verts_arg] = <<>>
        ls1 == IF fresh_v THEN Append(ls, <<>>) ELSE ls
        v == IF fresh_v THEN Len(ls1) ELSE verts_arg
        fresh_f == faces_arg = 0 \/ ls1[faces_arg] = <<>>
        ls2 == IF fresh_f THEN Append(ls1, <<>>) ELSE ls1
        f == IF fresh_f THEN Len(ls2) ELSE faces_arg
    IN  [lists |-> ls2, self |-> Mesh(v, f)]

RECURSIVE Runaway(_, _, _)
\* self.faces.extend(face.map(f) for face in other.faces) when other.faces is
\* self.faces and not empty: the generator reads the faces it has appended,
\* at index n next, until memory is exhausted
Runaway(fs, l, n) ==
    IF Len(fs) >= MemFaces THEN fs
    ELSE Runaway(Append(fs, FaceShift(fs[n], l)), l, n + 1)

\* Mesh.extend(other) on heap ls; self and other are Mesh objects.  raised:
\* the call ended with MemoryError
Mesh_extend(ls, self, other) ==
    LET l == Len(ls[self.verts])
        ls1 == [ls EXCEPT ![self.verts] = @ \o ls[other.verts]]
        shifted == [i \in 1..Len(ls1[other.faces]) |-> FaceShift(ls1[other.faces][i], l)]
    IN  IF other.faces = self.faces /\ ls1[self.faces] # <<>>
          THEN [lists |-> [ls1 EXCEPT ![self.faces] = Runaway(@, l, 1)], raised |-> TRUE]
          ELSE [lists |-> [ls1 EXCEPT ![self.faces] = @ \o shifted], raised |-> FALSE]

\* Mesh.__add__(other)
Mesh_add(ls, self, other) ==
    LET r == Mesh_init(ls, 0, 0)
        e1 == Mesh_extend(r.lists, r.self, self)
        e2 == Mesh_extend(e1.lists, r.self, other)
    IN  [lists |-> e2.lists, self |-> r.self, raised |-> e1.raised \/ e2.raised]

\* Mesh.translate(offset)
Mesh_translate(ls, self, offset) ==
    LET old == ls[self.verts]
        new_verts == [i \in 1..Len(old) |->
                         V3(old[i].x + offset.x, old[i].y + offset.y, old[i].z + offset.z)]
        ls1 == Append(ls, new_verts)
    IN  Mesh_init(ls1, Len(ls1), self.faces)

\* the meshes a caller builds from list literals: Mesh(), one triangle, one quad
MeshInputs ==
    { [verts |-> <<>>, faces |-> <<>>],
      [verts |-> <<V3(0, 0, 0), V3(1, 0, 0), V3(0, 1, 0)>>, faces |-> <<Tri(1, 2, 3)>>],
      [verts |-> <<V3(0, 0, 0), V3(1, 0, 0), V3(1, 1, 0), V3(0, 1, 0)>>,
       faces |-> <<Quad(1, 2, 3, 4)>>] }

Offsets == {V3(1, 0, 0)}

\* m = Mesh(verts, faces) with two new lists
MeshNew ==
    /\ ~call.raised
    /\ Len(meshes) < MaxMeshes
    /\ \E inp \in MeshInputs :
           LET ls1 == lists \o <<inp.verts, inp.faces>>
               r == Mesh_init(ls1, Len(lists) + 1, Len(lists) + 2)
           IN  /\ lists' = r.lists
               /\ meshes' = Append(meshes, r.self)
    /\ call' = [op |-> "new", self |-> Len(meshes) + 1, other |-> 0,
                before |-> lists, raised |-> FALSE]
    /\ UNCHANGED <<genVars, travVars, qefVars>>

\* meshes[i].extend(meshes[j])
MeshExtendCall ==
    /\ ~call.raised
    /\ \E i, j \in 1..Len(meshes) :
           /\ Len(lists[meshes[i].verts]) + Len(lists[meshes[j].verts]) <= MaxVerts
           /\ LET r == Mesh_extend(lists, meshes[i], meshes[j])
              IN  /\ lists' = r.lists
                  /\ call' = [op |-> "extend", self |-> i, other |-> j,
                              before |-> lists, raised |-> r.raised]
    /\ UNCHANGED meshes
    /\ UNCHANGED <<genVars, travVars, qefVars>>

\* m = meshes[i] + meshes[j]
MeshAdd ==
    /\ ~call.raised
    /\ Len(meshes) < MaxMeshes
    /\ \E i, j \in 1..Len(meshes) :
           /\ Len(lists[meshes[i].verts]) + Len(lists[meshes[j].verts]) <= MaxVerts
           /\ LET r == Mesh_add(lists, meshes[i], meshes[j])
              IN  /\ lists' = r.lists
                  /\ meshes' = Append(meshes, r.self)
                  /\ call' = [op |-> "add", self |-> i, other |-> j,
                              before |-> lists, raised |-> r.raised]
    /\ UNCHANGED <<genVars, travVars, qefVars>>

\* m = meshes[i].translate(offset)
MeshTranslate ==
    /\ ~call.raised
    /\ Len(meshes) < MaxMeshes
    /\ \E i \in 1..Len(meshes) : \E offset \in Offsets :
           LET r == Mesh_translate(lists, meshes[i], offset)
           IN  /\ lists' = r.lists
               /\ meshes' = Append(meshes, r.self)
               /\ call' = [op |-> "translate", self |-> i, other |-> 0,
                           before |-> lists, raised |-> FALSE]
    /\ UNCHANGED <<genVars, travVars, qefVars>>

-----------------------------------------------------------------------------
(* Specifications *)

\* marching_cubes_gen.py run as a script
GenInit == GenStart /\ TravIdle /\ QefIdle /\ MeshIdle

GenNext == AddInverse \/ ApplyOp \/ AssignCase \/ Test1Step

SpecGen == GenInit /\ [][GenNext]_vars

\* two cells adjacent along x, along y or along z
PairGrids == {<<2, 1, 1>>, <<1, 2, 1>>, <<1, 1, 2>>}

\* sample values: one solid, one not
MCSamples == {-1, 3}

MC3Init ==
    /\ GenIdle
    /\ alg = "mc3"
    /\ dims \in PairGrids
    /\ field \in [Corners3(dims) -> MCSamples]
    /\ ADAPTIVE \in BOOLEAN
    /\ fprop = <<>>
    /\ TravStart
    /\ QefIdle
    /\ MeshIdle

\* marching_cubes_3d over every sign pattern of a pair of adjacent cells
MC3Next == MC3Cell

SpecMC3 == MC3Init /\ [][MC3Next]_vars

\* the grids of the traversals: the smallest with an interior grid edge along
\* every axis
Dims2 == <<2, 2>>
Dims3 == <<2, 2, 2>>

\* at most MaxFlip corners differ in solidity from the rest of the grid
MaxFlip == 2

\* the sample at corner c: a solid grid (3) with non-solid corners (-1), a
\* non-solid grid (-1 at even x, -3 at odd x) with solid corners (3), and a
\* grid of zeros with solid corners (3)
Sample(grid, c, flipped) ==
    CASE grid = "solid" -> IF flipped THEN -1 ELSE 3
      [] grid = "outside" -> IF flipped THEN 3 ELSE -1 - 2 * (c[1] % 2)
      [] grid = "zero" -> IF flipped THEN 3 ELSE 0

Fields(C) ==
    { [c \in C |-> Sample(grid, c, c \in S)] :
        S \in UpTo(C, MaxFlip), grid \in {"solid", "outside", "zero"} }

\* f_property: a constant property, and one that alternates with x
PropFields(C) == { [c \in C |-> 0], [c \in C |-> c[1] % 2] }

TravInit ==
    /\ GenIdle
    /\ alg \in {"mc3", "dc3", "mc2", "dc2"}
    /\ dims = IF alg \in {"mc3", "dc3"} THEN Dims3 ELSE Dims2
    /\ field \in IF alg \in {"mc3", "dc3"} THEN Fields(Corners3(dims)) ELSE Fields(Corners2(dims))
    /\ ADAPTIVE \in BOOLEAN
    /\ fprop \in IF alg = "mc2" THEN PropFields(Corners2(dims)) ELSE {<<>>}
    /\ TravStart
    /\ QefIdle
    /\ MeshIdle

TravNext ==
    \/ MC3Cell
    \/ MC2Cell
    \/ DC2Vertex
    \/ DC2Vertical
    \/ DC2Horizontal
    \/ DC3Vertex
    \/ DC3Faces

\* the four traversals over grids whose field is uniform up to MaxFlip corners
SpecTrav == TravInit /\ [][TravNext]_vars

\* cell origins x, y (, z)
Origins2 == {<<0, 0>>, <<-1, 2>>}
Origins3 == {<<0, 0, 0>>, <<-1, 2, 1>>}

\* Crossing points, as offsets from the cell origin, with their normals: two
\* points with parallel normals, and three points with normals in general position
Crossings2 ==
    { [p |-> << <<Rat(1, 2), RInt(0)>>, <<RInt(0), Rat(1, 2)>> >>,
       n |-> << <<RInt(1), RInt(1)>>, <<RInt(1), RInt(1)>> >>],
      [p |-> << <<RInt(1), Rat(1, 2)>>, <<Rat(1, 2), RInt(1)>>, <<RInt(0), Rat(1, 2)>> >>,
       n |-> << <<RInt(1), RInt(0)>>, <<RInt(0), RInt(1)>>, <<RInt(-1), RInt(1)>> >>] }

Crossings3 ==
    { [p |-> << <<RInt(1), Rat(1, 2), RInt(0)>>, <<Rat(1, 2), RInt(1), RInt(1)>> >>,
       n |-> << <<RInt(1), RInt(0), RInt(0)>>, <<RInt(0), RInt(1), RInt(1)>> >>],
      [p |-> << <<Rat(1, 2), RInt(0), RInt(0)>>, <<RInt(0), Rat(1, 2), RInt(0)>>,
                <<RInt(0), RInt(0), Rat(1, 2)>>, <<RInt(1), RInt(1), Rat(1, 2)>> >>,
       n |-> << <<RInt(1), RInt(1), RInt(0)>>, <<RInt(0), RInt(1), RInt(1)>>,
                <<RInt(1), RInt(0), RInt(2)>>, <<RInt(-1), RInt(1), RInt(0)>> >>] }

QefInit ==
    /\ GenIdle
    /\ TravIdle
    /\ MeshIdle
    /\ qdim \in {2, 3}
    /\ origin \in IF qdim = 2 THEN Origins2 ELSE Origins3
    /\ \E c \in IF qdim = 2 THEN Crossings2 ELSE Crossings3 :
           /\ positions = [i \in 1..Len(c.p) |->
                             [k \in 1..qdim |-> RAdd(RInt(origin[k]), c.p[i][k])]]
           /\ normals = c.n
    /\ BIAS \in BOOLEAN
    /\ BOUNDARY \in BOOLEAN
    /\ CLIP \in BOOLEAN
    /\ qpc = "make"
    /\ qef = QEF(<<>>, <<>>, <<>>)
    /\ best = Candidate(Residual(RInt(0), FALSE), <<>>, FALSE)
    /\ rs = <<>>
    /\ tier = "none"
    /\ ret = None

QefNext ==
    \/ QMake
    \/ QSolve
    \/ QFaces
    \/ QEdges
    \/ QCorners
    \/ QPick
    \/ QReturn

\* one call of solve_qef_2d or solve_qef_3d, for every setting of the toggles
SpecQEF == QefInit /\ [][QefNext]_vars

\* crossing points on the four sides of the cell, as offsets from its origin
SidePoints ==
    { <<Rat(1, 2), RInt(0)>>, <<RInt(0), Rat(1, 2)>>,
      <<RInt(1), Rat(1, 4)>>, <<Rat(3, 4), RInt(1)>> }

Normals2 ==
    { <<RInt(1), RInt(0)>>, <<RInt(0), RInt(1)>>, <<RInt(1), RInt(1)>>,
      <<RInt(-1), RInt(1)>>, <<RInt(1), RInt(2)>> }

\* QEF.make_2d and QEF.solve on two crossing points with independent normals,
\* without bias rows
Solve2Init ==
    /\ GenIdle
    /\ TravIdle
    /\ MeshIdle
    /\ qdim = 2
    /\ origin \in Origins2
    /\ \E p1, p2 \in SidePoints :
           /\ p1 # p2
           /\ positions = [i \in 1..2 |->
                             [k \in 1..2 |-> RAdd(RInt(origin[k]), <<p1, p2>>[i][k])]]
    /\ \E n1, n2 \in Normals2 :
           /\ Det2(n1, n2) # RInt(0)
           /\ normals = <<n1, n2>>
    /\ BIAS = FALSE
    /\ BOUNDARY = FALSE
    /\ CLIP = FALSE
    /\ qpc = "make"
    /\ qef = QEF(<<>>, <<>>, <<>>)
    /\ best = Candidate(Residual(RInt(0), FALSE), <<>>, FALSE)
    /\ rs = <<>>
    /\ tier = "none"
    /\ ret = None

Solve2Next == QMake \/ QSolveExact

SpecSolve2 == Solve2Init /\ [][Solve2Next]_vars

\* normals of two crossing points, among them pairs that mirror each other
\* in the diagonal of the cell
CascadeNormals ==
    { <<RInt(1), RInt(0)>>, <<RInt(0), RInt(1)>>, <<RInt(1), RInt(1)>>,
      <<RInt(-1), RInt(2)>>, <<RInt(2), RInt(-1)>>, <<RInt(1), RInt(2)>> }

\* Crossing points, as offsets from the cell origin, with their normals: two
\* points on the sides of the cell with independent normals, and three points
\* at corners of the cell whose lines meet nearest to one another outside the
\* cell, beyond its lower corner
CascadeCrossings ==
    { [p |-> pp, n |-> nn] :
        pp \in {x \in SidePoints \X SidePoints : x[1] # x[2]},
        nn \in {x \in CascadeNormals \X CascadeNormals : Det2(x[1], x[2]) # RInt(0)} }
    \cup
    { [p |-> << <<RInt(0), RInt(0)>>, <<RInt(0), RInt(1)>>, <<RInt(1), RInt(0)>> >>,
       n |-> << <<RInt(2), RInt(2)>>, <<RInt(2), RInt(-1)>>, <<RInt(-1), RInt(2)>> >>] }

\* one call of solve_qef_2d with BOUNDARY set, without bias rows
Cascade2Init ==
    /\ GenIdle
    /\ TravIdle
    /\ MeshIdle
    /\ qdim = 2
    /\ origin \in Origins2
    /\ \E c \in CascadeCrossings :
           /\ positions = [i \in 1..Len(c.p) |->
                             [k \in 1..2 |-> RAdd(RInt(origin[k]), c.p[i][k])]]
           /\ normals = c.n
    /\ BIAS = FALSE
    /\ BOUNDARY = TRUE
    /\ CLIP \in BOOLEAN
    /\ qpc = "make"
    /\ qef = QEF(<<>>, <<>>, <<>>)
    /\ best = Candidate(Residual(RInt(0), FALSE), <<>>, FALSE)
    /\ rs = <<>>
    /\ tier = "none"
    /\ ret = None

Cascade2Next ==
    \/ QMake
    \/ QSolveLstsq
    \/ QFacesLstsq
    \/ QCorners
    \/ QPick
    \/ QReturn

SpecCascade2 == Cascade2Init /\ [][Cascade2Next]_vars

\* QEF.make_2d / make_3d followed by fix_axis calls on distinct axes in any
\* order, and QEF.solve
FixInit ==
    /\ QefInit
    /\ BOUNDARY
    /\ ~CLIP

FixNext ==
    \/ QMake
    \/ QFixAxis
    \/ QSolveFixed

SpecFix == FixInit /\ [][FixNext]_vars

\* QEF.make_2d / make_3d followed by any sequence of fix_axis calls
FixAnyNext ==
    \/ QMake
    \/ QFixAny

SpecFixAny == FixInit /\ [][FixAnyNext]_vars

\* a program that builds meshes and combines them through the Mesh methods
MeshInit == GenIdle /\ TravIdle /\ QefIdle /\ MeshIdle

MeshNext ==
    \/ MeshNew
    \/ MeshExtendCall
    \/ MeshAdd
    \/ MeshTranslate

SpecMesh == MeshInit /\ [][MeshNext]_vars

-----------------------------------------------------------------------------
(* Claims *)

\* the symmetry-expansion loop over OPERATIONS has finished
GenExpanded == gpc \in {"test1", "done", "failed"}

(* C4: after the expansion loop ALL_CASES has an entry for each of 0..255 *)
C4_AllBitmasksPresent == GenExpanded => DOMAIN ALL_CASES = 0..255

(* C5: the final table passes test1 and the script does not stop on an assert *)
C5_GeneratedTablePassesTest1 ==
    GenExpanded => (test1(ALL_CASES) /\ gpc # "failed")

\* the cells marching_cubes_3d has looked up in the table so far
LookedUp == {Cells3(dims)[i] : i \in 1..(cur - 1)}

(* C2: every triangle of the table entry of a cell's bitmask names edges in *)
(* 0..11 that join a solid corner and a non-solid corner of that bitmask    *)
C2_TableEdgesSeparate ==
    alg = "mc3" =>
        \A cell \in LookedUp :
            LET b == CellCase(cell)
            IN  \A f \in 1..Len(cases(b)) : \A j \in 1..3 :
                    LET e == cases(b)[f][j]
                    IN  /\ e \in 0..11
                        /\ BitSet(b, EDGES(e)[1]) # BitSet(b, EDGES(e)[2])

C2_Witness ==
    /\ alg = "mc3"
    /\ tpc = "done"
    /\ \E cell \in LookedUp : Len(cases(CellCase(cell))) = 5

\* the cube edge `e` of a cell as the pair of grid corners it joins
GridEdge(cell, e) ==
    { <<cell[1] + VERTICES(EDGES(e)[k])[1],
        cell[2] + VERTICES(EDGES(e)[k])[2],
        cell[3] + VERTICES(EDGES(e)[k])[3]>> : k \in 1..2 }

\* the sides (a, b), (b, c), (c, a) of a triangle, unordered
TriSides(t) == { {t[1], t[2]}, {t[2], t[3]}, {t[3], t[1]} }

\* the triangle sides of the cell's table entry that lie in the grid plane
\* coordinate[axis] = val, as pairs of grid edges
FaceSides(cell, axis, val) ==
    LET faces == cases(CellCase(cell))
        inPlane(e) == \A p \in GridEdge(cell, e) : p[axis] = val
        sides == UNION {TriSides(faces[f]) : f \in 1..Len(faces)}
    IN  { {GridEdge(cell, e) : e \in sd} : sd \in {x \in sides : \A e \in x : inPlane(e)} }

\* the axis along which the two cells of a pair grid are adjacent
PairAxis == CHOOSE a \in 1..3 : dims[a] = 2

(* C3: two cells adjacent along an axis (so that their bitmasks agree on the *)
(* four shared corners) have the same triangle sides in the shared face      *)
C3_SharedFaceSidesMatch ==
    (alg = "mc3" /\ dims \in PairGrids /\ tpc = "done") =>
        FaceSides(Cells3(dims)[1], PairAxis, 1) = FaceSides(Cells3(dims)[2], PairAxis, 1)

\* a shared face crossed by two triangle sides (the ambiguous face)
C3_Witness ==
    /\ alg = "mc3" /\ dims \in PairGrids /\ tpc = "done"
    /\ Cardinality(FaceSides(Cells3(dims)[1], PairAxis, 1)) = 2
    /\ Cardinality(FaceSides(Cells3(dims)[2], PairAxis, 1)) = 2

-----------------------------------------------------------------------------
(* Claims about the traversals *)

Solid(p) == field[p] > 0

\* the field has the same solidity at every grid corner
Uniform == \A p, q \in DOMAIN field : Solid(p) = Solid(q)

(* C6: on a field that is solid at every grid corner, or at none, each of the *)
(* four traversals returns an empty result (a Mesh without vertices and      *)
(* faces, or an empty list of segments)                                      *)
C6_UniformFieldGivesEmptyResult ==
    (tpc = "done" /\ Uniform) =>
        IF alg \in {"mc3", "dc3"}
          THEN mesh.verts = <<>> /\ mesh.faces = <<>>
          ELSE edges = <<>>

\* the cells of the traversed grid
GridCells == IF Len(dims) = 3 THEN Range(Cells3(dims)) ELSE Range(Cells2(dims))

\* the corners of a cell
CellCorners(c) ==
    {p \in DOMAIN field : \A k \in 1..Len(c) : p[k] \in {c[k], c[k] + CELL_SIZE}}

\* the corners one CELL_SIZE further than p along one axis
NextCorners(p) ==
    {r \in DOMAIN field :
        \E a \in 1..Len(dims) :
            /\ r[a] = p[a] + CELL_SIZE
            /\ \A k \in 1..Len(dims) : k # a => r[k] = p[k]}

\* the grid edges: pairs of corners one CELL_SIZE apart along one axis
GridEdges == UNION { {{p, q} : q \in NextCorners(p)} : p \in DOMAIN field }

\* the endpoints of the grid edge differ in solidity
SignChange(e) == \E p, q \in e : Solid(p) /\ ~Solid(q)

\* the number of edges of the cell whose endpoints differ in solidity
Crossings(c) ==
    Cardinality({e \in GridEdges : e \subseteq CellCorners(c) /\ SignChange(e)})

\* the cells the first pass of dual_contour_3d has visited
Visited3 ==
    IF tpc = "verts" THEN {Cells3(dims)[i] : i \in 1..(cur - 1)} ELSE GridCells

(* C7: for either setting of ADAPTIVE the vertex placer of dual_contour_2d and *)
(* dual_contour_3d gives a cell no vertex exactly when fewer than two of the  *)
(* cell's edges have endpoints of different solidity                          *)
C7_NoVertexIffFewerThanTwoCrossings ==
    /\ alg = "dc2" => \A c \in DOMAIN verts : IsNone(verts[c]) <=> (Crossings(c) < 2)
    /\ alg = "dc3" => \A c \in Visited3 : (c \notin DOMAIN vert_indices) <=> (Crossings(c) < 2)

\* the cells adjacent to a grid edge
AdjCells(e) ==
    {c \in GridCells : \A p \in e : \A k \in 1..Len(c) : p[k] \in {c[k], c[k] + CELL_SIZE}}

\* the edge lies strictly inside the grid: it has all its 2 (2D) or 4 (3D) cells
Interior(e) == Cardinality(AdjCells(e)) = 2 * (Len(dims) - 1)

\* dual contouring has returned
DCDone == alg \in {"dc2", "dc3"} /\ tpc = "done"

\* the faces returned: segments in 2D, quads in 3D
Emitted == IF alg = "dc2" THEN edges ELSE mesh.faces

\* the cells whose vertices the face joins
FaceCells(face) ==
    IF alg = "dc2"
      THEN {c \in DOMAIN verts : verts[c] = face.v1 \/ verts[c] = face.v2}
      ELSE {c \in DOMAIN vert_indices : \E j \in 1..Len(face) : vert_indices[c] = face[j]}

\* the faces emitted for a grid edge: those joining the vertices of its cells
EmittedFor(e) ==
    LET adj == AdjCells(e)
    IN  {i \in 1..Len(Emitted) : FaceCells(Emitted[i]) = adj}

(* C8 as stated: the second pass emits exactly one face for every grid edge *)
(* whose endpoints differ in solidity, joining the vertices of the cells    *)
(* adjacent to the edge, and no face for any other edge                     *)
C8_OneFacePerSignChangingEdge ==
    DCDone =>
        \A e \in GridEdges :
            Cardinality(EmittedFor(e)) = IF SignChange(e) THEN 1 ELSE 0

(* C8 amended: the second pass emits exactly one face for every grid edge   *)
(* strictly inside the grid (shared by 2 cells in 2D, 4 cells in 3D) whose  *)
(* endpoints differ in solidity, joining the vertices of those cells, and   *)
(* no face for any other edge, the edges on the grid's boundary included    *)
C8_OneFacePerInteriorSignChangingEdge ==
    DCDone =>
        LET all == GridEdges
        IN  /\ \A e \in all :
                   Cardinality(EmittedFor(e)) = IF SignChange(e) /\ Interior(e) THEN 1 ELSE 0
            /\ Len(Emitted) = Cardinality({e \in all : SignChange(e) /\ Interior(e)})

\* a 3D run that emitted a quad and left a sign-changing boundary edge without one
C8_Witness ==
    /\ DCDone /\ alg = "dc3"
    /\ Len(Emitted) > 0
    /\ \E e \in GridEdges : SignChange(e) /\ ~Interior(e)

\* twice the centre of a cell
Centre2(c) == [k \in 1..Len(c) |-> 2 * c[k] + CELL_SIZE]

\* the cell a vertex of a face belongs to
VertexCell(v) ==
    IF alg = "dc2" THEN CHOOSE c \in DOMAIN verts : verts[c] = v
    ELSE CHOOSE c \in DOMAIN vert_indices : vert_indices[c] = v

\* the grid edge a face crosses: the corners common to the cells it joins
Crossed(face) ==
    LET joined == FaceCells(face)
    IN  {p \in DOMAIN field :
            \A c \in joined : \A k \in 1..Len(c) : p[k] \in {c[k], c[k] + CELL_SIZE}}

SolidEnd(e) == CHOOSE p \in e : Solid(p)
OtherEnd(e) == CHOOSE p \in e : ~Solid(p)

\* the solid endpoint of the crossed grid edge lies to the left of v1 -> v2,
\* with the vertices at the centres of their cells
SolidOnLeft(seg) ==
    LET p1 == Centre2(VertexCell(seg.v1))
        p2 == Centre2(VertexCell(seg.v2))
        e == Crossed(seg)
        s == SolidEnd(e)
        dx == p2[1] - p1[1]
        dy == p2[2] - p1[2]
        sx == 4 * s[1] - (p1[1] + p2[1])
        sy == 4 * s[2] - (p1[2] + p2[2])
    IN  dx * sy - dy * sx > 0

(* C9: the segments dual_contour_2d returns all have the solid endpoint of *)
(* their crossed grid edge on the same side of v1 -> v2, whether the edge  *)
(* is vertical or horizontal                                                *)
C9_SegmentsOrientedAlike ==
    (alg = "dc2" /\ tpc = "done") =>
        \/ \A i \in 1..Len(edges) : SolidOnLeft(edges[i])
        \/ \A i \in 1..Len(edges) : ~SolidOnLeft(edges[i])

\* the right-hand-rule normal of the quad, vertices at their cell centres,
\* has a positive component from the solid to the non-solid endpoint
NormalLeavesSolid(quad) ==
    LET p1 == Centre2(VertexCell(quad[1]))
        p2 == Centre2(VertexCell(quad[2]))
        p3 == Centre2(VertexCell(quad[3]))
        u == [k \in 1..3 |-> p2[k] - p1[k]]
        w == [k \in 1..3 |-> p3[k] - p1[k]]
        n == << u[2] * w[3] - u[3] * w[2],
                u[3] * w[1] - u[1] * w[3],
                u[1] * w[2] - u[2] * w[1] >>
        e == Crossed(quad)
        out == [k \in 1..3 |-> OtherEnd(e)[k] - SolidEnd(e)[k]]
    IN  n[1] * out[1] + n[2] * out[2] + n[3] * out[3] > 0

(* C10: every quad dual_contour_3d returns (USE_TRI off) is wound so that  *)
(* its right-hand-rule normal, taken with each cell's vertex at the cell   *)
(* centre, points from the solid endpoint of the crossed grid edge to the  *)
(* non-solid endpoint, for edges along each axis                           *)
C10_QuadNormalLeavesSolid ==
    (alg = "dc3" /\ tpc = "done" /\ ~USE_TRI) =>
        \A i \in 1..Len(mesh.faces) : NormalLeavesSolid(mesh.faces[i])

\* the axis of a grid edge
Axis(e) == CHOOSE a \in 1..Len(dims) : \E p, q \in e : p[a] # q[a]

\* quads were returned for edges along all three axes, along each axis one
\* with the lower endpoint solid and one with the upper endpoint solid
C10_Witness ==
    /\ alg = "dc3" /\ tpc = "done" /\ ~USE_TRI
    /\ \A a \in 1..3 : \A low \in BOOLEAN :
           \E i \in 1..Len(mesh.faces) :
               LET e == Crossed(mesh.faces[i])
               IN  /\ Axis(e) = a
                   /\ low = (SolidEnd(e)[a] < OtherEnd(e)[a])

-----------------------------------------------------------------------------
(* Claims about the vertex placer *)

\* the coordinates of the returned V2 / V3
Returned == IF qdim = 2 THEN <<ret.x, ret.y>> ELSE <<ret.x, ret.y, ret.z>>

(* C1: with BOUNDARY enabled, a position solve_qef_2d / solve_qef_3d returns *)
(* lies in [origin, origin + CELL_SIZE] on every axis, whichever tier of the *)
(* cascade chose it and whatever BIAS and CLIP are                           *)
C1_ReturnedPositionInsideCell ==
    (qpc = "returned" /\ BOUNDARY) =>
        \A k \in 1..qdim :
            /\ RLeq(RInt(origin[k]), Returned[k])
            /\ RLeq(Returned[k], RInt(origin[k] + CELL_SIZE))

\* solve_qef_3d returned, without CLIP, a position found on one of the 12
\* lines after the unconstrained solve and all 6 plane solves fell outside
C1_Witness ==
    /\ qpc = "returned" /\ BOUNDARY /\ ~CLIP /\ BIAS
    /\ qdim = 3
    /\ tier = "edges"
    /\ Len(rs) = 2

-----------------------------------------------------------------------------
(* Claims about the edge interpolator *)

\* the values f takes on the grid
Samples == {field[p] : p \in DOMAIN field}

\* adapt has been called: a traversal has placed a vertex on a grid edge
Interpolated ==
    \/ alg = "mc3" /\ Len(mesh.verts) > 0
    \/ alg = "mc2" /\ Len(edges) > 0

(* C11: for every pair of samples v0, v1 with (v0 > 0) != (v1 > 0), adapt   *)
(* with ADAPTIVE on returns the root a of the linear interpolant, that is   *)
(* a * (v1 - v0) = (0 - v0) * CELL_SIZE, and 0 <= a <= CELL_SIZE; with      *)
(* ADAPTIVE off it returns CELL_SIZE / 2 for each such pair                 *)
C11_AdaptIsInterpolationRoot ==
    \A v0, v1 \in Samples :
        ((v0 > 0) # (v1 > 0)) =>
            LET a == adapt(v0, v1)
            IN  /\ a # AssertionError
                /\ IF ADAPTIVE
                      THEN /\ a[1] * (v1 - v0) = a[2] * (0 - v0) * CELL_SIZE
                           /\ RLeq(RInt(0), a)
                           /\ RLeq(a, RInt(CELL_SIZE))
                      ELSE 2 * a[1] = a[2] * CELL_SIZE

\* an adaptive run placed vertices on edges with a sample equal to 0, where
\* the offsets are the ends 0 and CELL_SIZE of the interval
C11_Witness ==
    /\ Interpolated /\ tpc = "done" /\ ADAPTIVE
    /\ \E v0, v1 \in Samples :
           /\ (v0 > 0) # (v1 > 0)
           /\ adapt(v0, v1) = RInt(0)
           /\ adapt(v1, v0) = RInt(CELL_SIZE)

\* the cube edge joins two corners of the same solidity
SameSide(cell, e) == (f_eval(cell, EDGES(e)[1]) > 0) = (f_eval(cell, EDGES(e)[2]) > 0)

(* C12: for a pair of samples that are both > 0 or both <= 0 adapt raises   *)
(* AssertionError instead of returning an offset, with ADAPTIVE on and off, *)
(* and edge_to_boundary_vertex, which calls it, passes the error on         *)
C12_AdaptRejectsSameSign ==
    /\ \A v0, v1 \in Samples :
           ((v0 > 0) = (v1 > 0)) => adapt(v0, v1) = AssertionError
    /\ alg = "mc3" =>
           \A cell \in LookedUp : \A e \in 0..11 :
               SameSide(cell, e) => edge_to_boundary_vertex(cell, e) = AssertionError

\* a finished run with ADAPTIVE off over a grid that has cube edges with
\* both ends solid and cube edges with both ends non-solid
C12_Witness ==
    /\ alg = "mc3" /\ tpc = "done" /\ ~ADAPTIVE
    /\ \E cell \in LookedUp : \E e, g \in 0..11 :
           /\ SameSide(cell, e) /\ f_eval(cell, EDGES(e)[1]) > 0
           /\ SameSide(cell, g) /\ f_eval(cell, EDGES(g)[1]) <= 0

-----------------------------------------------------------------------------
(* Claims about meshes *)

(* C13: the mesh marching_cubes_3d builds has three vertices per triangle,  *)
(* none shared: the k-th triangle references the vertex indices 3k-2, 3k-1, *)
(* 3k, also when two adjacent cells cross the same grid edge                *)
C13_TrianglesOwnTheirVertices ==
    alg = "mc3" =>
        /\ Len(mesh.verts) = 3 * Len(mesh.faces)
        /\ \A k \in 1..Len(mesh.faces) :
               mesh.faces[k] = Tri(3 * k - 2, 3 * k - 1, 3 * k)

\* both cells of a pair grid emitted a vertex at the same position, on a grid
\* edge they share
C13_Witness ==
    /\ alg = "mc3" /\ dims \in PairGrids /\ tpc = "done"
    /\ LET n1 == 3 * Len(cases(CellCase(Cells3(dims)[1])))
       IN  \E i \in 1..n1 : \E j \in (n1 + 1)..Len(mesh.verts) :
               mesh.verts[i] = mesh.verts[j]

\* the content of a mesh's lists on heap ls
Content(ls, m) == Mesh(ls[m.verts], ls[m.faces])

(* C14: after self.extend(other), with other a Mesh object other than self, *)
(* self.verts is the old self.verts followed by other.verts, self.faces is  *)
(* the old self.faces followed by other's faces with every index increased  *)
(* by the old vertex count of self, other is unchanged and no error is      *)
(* raised                                                                   *)
C14_ExtendAppendsOnly ==
    (call.op = "extend" /\ call.self # call.other) =>
        LET self == meshes[call.self]
            other == meshes[call.other]
            old == Content(call.before, self)
            arg == Content(call.before, other)
        IN  /\ ~call.raised
            /\ Content(lists, self) = MeshExtend(old, arg)
            /\ Content(lists, other) = arg

(* C15: no two Mesh objects refer to the same list of vertices or the same  *)
(* list of faces, and extending one mesh leaves the verts and faces of every *)
(* other mesh as they were                                                  *)
C15_MeshesOwnTheirBuffers ==
    /\ \A i, j \in 1..Len(meshes) :
           i # j => /\ meshes[i].verts # meshes[j].verts
                    /\ meshes[i].faces # meshes[j].faces
    /\ call.op = "extend" =>
           \A k \in 1..Len(meshes) :
               k # call.self => Content(lists, meshes[k]) = Content(call.before, meshes[k])

-----------------------------------------------------------------------------
(* Claims about clipping and the QEF *)

\* the position chosen before `if settings.CLIP`
Chosen == best.v

\* a coordinate clamped into [lo, hi]
Clamped(a, lo, hi) == IF RLeq(a, lo) THEN lo ELSE IF RLeq(hi, a) THEN hi ELSE a

\* solve_qef_2d / solve_qef_3d ended in the clipping step without a result
ClipRaised == qpc = "raised" /\ ret = [error |-> "TypeError"]

(* C16: with CLIP enabled, whenever a position was chosen the function      *)
(* returns it with each coordinate clamped into [origin, origin + CELL_SIZE] *)
(* on its own axis: the result is inside the cell also with BOUNDARY off,   *)
(* and a chosen position that is inside the cell is returned unchanged      *)
C16_ClipClampsChosenPosition ==
    CLIP =>
        /\ ~ClipRaised
        /\ qpc = "returned" =>
               /\ \A k \in 1..qdim :
                      Returned[k] = Clamped(Chosen[k], RInt(origin[k]), RInt(origin[k] + CELL_SIZE))
               /\ inside(origin, [v |-> Returned])
               /\ inside(origin, best) => Returned = Chosen

-----------------------------------------------------------------------------
(* Claims relating the generator and the hardcoded table *)

(* C17: for every bitmask that is a key of the generator's final ALL_CASES  *)
(* the hardcoded entry cases[bitmask] equals ALL_CASES[bitmask]: the same   *)
(* triangles in the same order with the same edge order in each triangle    *)
C17_HardcodedTableIsGenerated ==
    GenExpanded => \A bits \in DOMAIN ALL_CASES : cases(bits) = ALL_CASES[bits]

\* QEF.solve has returned for the QEF of make_2d
Solved == qpc = "solved"

(* C18: for two crossing points with linearly independent normals the      *)
(* unconstrained solve of the QEF of make_2d (no bias rows) returns the    *)
(* point that lies on both lines through a crossing point perpendicular to *)
(* its normal, with residual 0                                             *)
C18_TwoNormalsGiveIntersection ==
    (Solved /\ Len(normals) = 2) =>
        /\ \A i \in 1..2 :
               Dot([k \in 1..2 |-> RSub(best.v[k], positions[i][k])], normals[i]) = RInt(0)
        /\ best.residual.sq = RInt(0)

\* the two lines meet outside the cell, neither normal along an axis
C18_Witness ==
    /\ Solved /\ Len(normals) = 2
    /\ ~inside(origin, best)
    /\ \A i \in 1..2 : \A k \in 1..2 : normals[i][k] # RInt(0)

-----------------------------------------------------------------------------
(* Claims about the positions of the Marching Cubes vertices *)

\* the point of the grid edge from corner p to corner q at the offset
\* adapt(f(p), f(q)) from p
EdgePoint(p, q) ==
    LET a == adapt(field[p], field[q])
    IN  [k \in 1..Len(p) |->
            RAdd(RInt(p[k]), RMul(a, RInt((q[k] - p[k]) \div CELL_SIZE)))]

\* the number of vertices marching_cubes_3d has emitted before its i-th cell
VertsBefore(i) ==
    SumSeq([j \in 1..(i - 1) |-> 3 * Len(cases(CellCase(Cells3(dims)[j])))])

\* the vertices of the visited 3D cells: the vertex for table edge e is the
\* point of grid edge EDGES[e], measured from its first corner
MC3VerticesOnNamedEdges ==
    \A i \in 1..(cur - 1) :
        LET cell == Cells3(dims)[i]
            faces == cases(CellCase(cell))
            corner(v) == [k \in 1..3 |-> cell[k] + VERTICES(v)[k] * CELL_SIZE]
        IN  \A f \in 1..Len(faces) : \A j \in 1..3 :
                LET e == faces[f][j]
                    v == mesh.verts[VertsBefore(i) + 3 * (f - 1) + j]
                IN  <<v[1], v[2], v[3]>> = EdgePoint(corner(EDGES(e)[1]), corner(EDGES(e)[2]))

\* the number of segments of a 2D case when no segment is split
SegmentsOfCase(case) == IF case \in {0, 15} THEN 0 ELSE IF case \in {6, 9} THEN 2 ELSE 1

\* the number of segments marching_cubes_2d has emitted before its i-th cell
SegmentsBefore(i) ==
    SumSeq([j \in 1..(i - 1) |-> SegmentsOfCase(Case2(Cells2(dims)[j]))])

\* the points of the sign-changing sides of a 2D cell, each measured from the
\* side's lower corner by adapt of the side's own two samples
SidePointsOf(cell) ==
    LET sides == { <<p, q>> \in CellCorners(cell) \X CellCorners(cell) :
                      /\ q \in NextCorners(p)
                      /\ Solid(p) # Solid(q) }
    IN  { EdgePoint(s[1], s[2]) : s \in sides }

\* the endpoints of the segments of the visited 2D cells, for a constant
\* property (no segment is split at its midpoint)
MC2VerticesOnNamedEdges ==
    (\A c \in DOMAIN fprop : fprop[c] = 0) =>
        \A i \in 1..(cur - 1) :
            LET cell == Cells2(dims)[i]
            IN  \A n \in 1..SegmentsOfCase(Case2(cell)) :
                    LET seg == edges[SegmentsBefore(i) + n]
                    IN  /\ <<seg.v1.x, seg.v1.y>> \in SidePointsOf(cell)
                        /\ <<seg.v2.x, seg.v2.y>> \in SidePointsOf(cell)

(* C19: every vertex Marching Cubes emits (3D: for each table edge of the   *)
(* cell's case; 2D: each endpoint of each branch 1..14) lies on the cell    *)
(* edge it is named for, at the offset adapt(s0, s1) of that edge's own two *)
(* corner samples, measured from the corner of s0                           *)
C19_VerticesOnNamedEdges ==
    /\ (alg = "mc3" /\ tpc # "failed") => MC3VerticesOnNamedEdges
    /\ (alg = "mc2" /\ tpc # "failed") => MC2VerticesOnNamedEdges

-----------------------------------------------------------------------------
(* Claims about the two passes of Dual Contouring *)

\* the vertex pass has visited every cell
VertexPassDone ==
    IF alg = "dc2" THEN DOMAIN verts = GridCells ELSE tpc \in {"faces", "done", "failed"}

\* the faces emitted so far
EmittedSoFar == IF alg = "dc2" THEN edges ELSE dc_faces

(* C20: in dual_contour_2d and dual_contour_3d a face is emitted only after *)
(* the vertex pass has visited every cell, and every lookup of a cell's     *)
(* vertex made while emitting a face finds a placed vertex: never None in   *)
(* 2D, never a missing key in 3D                                            *)
C20_FacesFindTheirVertices ==
    alg \in {"dc2", "dc3"} =>
        /\ Len(EmittedSoFar) > 0 => VertexPassDone
        /\ alg = "dc2" =>
               \A i \in 1..Len(edges) : ~IsNone(edges[i].v1) /\ ~IsNone(edges[i].v2)
        /\ alg = "dc3" => tpc # "failed"

\* an adaptive 3D run that left cells without a vertex and returned quads
C20_Witness ==
    /\ alg = "dc3" /\ tpc = "done" /\ ADAPTIVE
    /\ Len(mesh.faces) > 0
    /\ \E c \in GridCells : c \notin DOMAIN vert_indices

-----------------------------------------------------------------------------
(* Claims about the fallback cascade *)

\* the order in which the tiers are evaluated
TierOrder ==
    { <<"none", "unconstrained">>, <<"unconstrained", "faces">>,
      <<"faces", IF qdim = 3 THEN "edges" ELSE "corners">>, <<"edges", "corners">> }

\* a position was returned with BOUNDARY set: it is the candidate chosen from
\* the tier evaluated last, which has an inside candidate
ReturnedFromLastTier ==
    (qpc = "returned" /\ BOUNDARY) =>
        /\ Returned = best.v
        /\ inside(origin, best)
        /\ IF tier = "unconstrained"
             THEN rs = <<>>
             ELSE \E i \in 1..Len(rs) : rs[i] = best

\* one step of solve_qef_2d / solve_qef_3d keeps the order of the cascade
CascadeStep ==
    /\ tier' # tier => <<tier, tier'>> \in TierOrder
    /\ (qpc = "solve" /\ qpc' # qpc /\ BOUNDARY /\ inside(origin, best')) => qpc' = "clip"
    /\ (qpc = "faces" /\ qpc' # qpc) =>
           tier = "unconstrained" /\ BOUNDARY /\ ~inside(origin, best) /\ rs = <<>>
    /\ (qpc = "edges" /\ qpc' # qpc) => qdim = 3 /\ tier = "faces" /\ rs = <<>>
    /\ (qpc = "corners" /\ qpc' # qpc) =>
           tier = (IF qdim = 3 THEN "edges" ELSE "faces") /\ rs = <<>>
    /\ (qpc = "pick" /\ qpc' # qpc) => (Len(rs) > 0 => qpc' = "clip" /\ best' = Min(rs))
    /\ ReturnedFromLastTier'

(* C21: with BOUNDARY enabled the tiers are evaluated in the order          *)
(* unconstrained solve, one-axis solves (4 lines in 2D, 6 planes in 3D), in *)
(* 3D the 12 two-axis solves, corners; a tier is evaluated only when no     *)
(* candidate of the earlier tiers is inside the cell, a returned position   *)
(* is a candidate of the first tier with an inside candidate, and an        *)
(* unconstrained solution inside the cell is returned without a             *)
(* constrained solve                                                        *)
C21_CascadeOrder == [][CascadeStep]_vars

\* solve_qef_3d returned a corner after the unconstrained solve, the 6 plane
\* solves and the 12 line solves all fell outside the cell
C21_Witness ==
    /\ qpc = "returned" /\ BOUNDARY /\ qdim = 3
    /\ tier = "corners"
    /\ Len(rs) = 8

\* min(rs) has been taken over the inside candidates of a constrained tier
Picked == qpc \in {"clip", "returned", "raised"} /\ tier # "unconstrained" /\ Len(rs) > 0

\* the chosen candidate has the least residual of the inside candidates
PickedHasMinResidual ==
    /\ \E i \in 1..Len(rs) : rs[i] = best
    /\ \A i \in 1..Len(rs) : ~ResidualLess(rs[i].residual, best.residual)

\* the chosen candidate is the first, in evaluation order, of the inside
\* candidates with that residual
PickedIsFirstMinimal ==
    \A i \in 1..Len(rs) :
        ResidualEq(rs[i].residual, best.residual) => \E j \in 1..i : rs[j] = best

(* C22: the candidate chosen from a tier has the minimum residual among the *)
(* tier's inside candidates, and among several inside candidates with that  *)
(* residual it is the one evaluated first (r1 before r2 ...)                *)
C22_FirstMinimalResidual == Picked => PickedHasMinResidual /\ PickedIsFirstMinimal

-----------------------------------------------------------------------------
(* Claims about QEF.fix_axis *)

\* the QEF of make_2d / make_3d the calls of fix_axis started from
Made == IF qdim = 2 THEN make_2d(positions, normals) ELSE make_3d(positions, normals)

\* the axes (1-based) fixed in a list of fixed values
FixedAxes(fixed_values) == {k \in 1..Len(fixed_values) : ~IsNone(fixed_values[k])}

\* row i of the made A without the columns of the fixed axes
FreeColumns(i) ==
    [j \in 1..Len(FreeAxes(qef)) |-> Made.A[i][FreeAxes(qef)[j]]]

\* entry i of the made b less value times the made column, for each fixed axis
ReducedB(i) ==
    LET F == SelectSeq([k \in 1..qdim |-> k], LAMBDA k : ~IsNone(qef.fixed_values[k]))
    IN  RSub(Made.b[i],
             RSum([j \in 1..Len(F) |-> RMul(qef.fixed_values[F[j]].value, Made.A[i][F[j]])]))

\* fix_axis has been called
FixCalled == qpc \in {"solve", "solved"} /\ FixedAxes(qef.fixed_values) # {}

(* C23: after any chain of fix_axis calls on distinct axes, in either order, *)
(* A is the made A without the columns of the fixed coordinates, b is the    *)
(* made b less value times the made column of each fixed coordinate, no call *)
(* raises, and solve() returns each fixed value in its own slot and the free *)
(* components in the other slots in axis order                               *)
C23_FixAxisRemovesOwnColumn ==
    /\ ~(qpc = "raised" /\ ret = [error |-> "IndexError"])
    /\ FixCalled =>
           /\ \A i \in 1..Len(qef.A) : qef.A[i] = FreeColumns(i)
           /\ \A i \in 1..Len(qef.b) : qef.b[i] = ReducedB(i)
    /\ (FixCalled /\ qpc = "solved") =>
           \A k \in 1..qdim :
               IF IsNone(qef.fixed_values[k])
                 THEN \E kind \in DOMAIN Answers :
                          best.v[k] = RAdd(RInt(origin[k]), Answers[kind])
                 ELSE best.v[k] = qef.fixed_values[k].value

\* a QEF has been made, and reached by fix_axis calls that returned
QefReached == qpc = "solve"

(* C24: every QEF reached from make_2d / make_3d by a sequence of fix_axis  *)
(* calls has as many columns in A as fixed_values has entries that are None *)
C24_ColumnsMatchFreeAxes ==
    QefReached =>
        Len(qef.A[1]) = Len(qef.fixed_values) - Cardinality(FixedAxes(qef.fixed_values))

-----------------------------------------------------------------------------
(* Claims about the derivations of the generator *)

\* an assignment to ALL_CASES leaves the bitmasks that had a triangle list
\* with that list
KeepsDerivedCases ==
    \A bits \in DOMAIN ALL_CASES :
        bits \in DOMAIN ALL_CASES' /\ ALL_CASES'[bits] = ALL_CASES[bits]

(* C25: while ALL_CASES is built no bitmask that holds a triangle list (of  *)
(* a base case, an inverse case or an earlier derivation) is assigned a     *)
(* different triangle list                                                   *)
C25_NoConflictingDerivation == [][KeepsDerivedCases]_vars

RECURSIVE ComposedBits(_, _)
\* the bitmask n taken through every operation of ops in turn, as
\* operations_apply takes the triangles
ComposedBits(ops, n) ==
    IF ops = <<>> THEN n ELSE ComposedBits(Tail(ops), bits_apply(Head(ops), n))

(* C26: for every operation sequence of OPERATIONS and every base case the  *)
(* bitmask under which the derived triangles are stored is the base bitmask *)
(* taken through the same sequence of corner permutations as the triangles  *)
C26_KeyFollowsTriangles ==
    gpc = "assign" =>
        StoreKey(OPERATIONS[opIdx], BASE_KEYS[baseIdx])
            = ComposedBits(OPERATIONS[opIdx], BASE_KEYS[baseIdx])

-----------------------------------------------------------------------------
(* Claims about the last tier of the cascade *)

\* (residual, position) of every corner of the cell, inside or not
CornerResults ==
    LET corners == IF qdim = 2 THEN Corners2D ELSE Corners3D
    IN  [i \in 1..Len(corners) |->
            eval_with_pos(qef, [k \in 1..Len(origin) |->
                                  RInt(origin[k] + corners[i][k] * CELL_SIZE)])]

\* the corners have been evaluated
CornersEvaluated == tier = "corners" /\ qpc \in {"pick", "clip", "returned", "raised"}

(* C27: with BOUNDARY enabled the call always produces a vertex: when no    *)
(* candidate of the constrained solves is inside the cell, a corner of the  *)
(* cell with the least residual of all corners is chosen and returned, and  *)
(* no step ends in an error                                                  *)
C27_CornerFallbackNeverFails ==
    BOUNDARY =>
        /\ qpc # "raised"
        /\ (CornersEvaluated /\ qpc # "pick") =>
               /\ \E i \in 1..Len(CornerResults) : CornerResults[i] = best
               /\ \A i \in 1..Len(CornerResults) :
                      ~ResidualLess(CornerResults[i].residual, best.residual)
        /\ (CornersEvaluated /\ qpc = "returned") => Returned = best.v

-----------------------------------------------------------------------------
(* Claims about the properties of the 2D Marching Cubes segments *)

\* the property at corner q (an offset in cells) of the cell
PropAt(cell, q) == fprop[<<cell[1] + q[1] * CELL_SIZE, cell[2] + q[2] * CELL_SIZE>>]

\* The property a rule gives the crossing `entry` of a branch whose vertex
\* lies at offset a from the first corner: below 0.5 the first corner's, above
\* 0.5 the second corner's, at 0.5 the second corner's if tieToSecond
PropertyByRule(cell, entry, a, tieToSecond) ==
    IF RLess(a, Rat(1, 2)) \/ (a = Rat(1, 2) /\ ~tieToSecond)
      THEN PropAt(cell, entry[4])
      ELSE PropAt(cell, entry[5])

\* the edges the rule gives for one cell: each segment of the branch, split
\* when its two crossings have different properties
RuleCellEdges(cell, tieToSecond) ==
    LET b == Branch2(Case2(cell))
        c == [i \in 1..Len(b) |-> Crossing(cell, b[i][1], b[i][2], b[i][3], b[i][4], b[i][5])]
        p == [i \in 1..Len(b) |-> PropertyByRule(cell, b[i], c[i].a, tieToSecond)]
    IN  Concat([k \in 1..(Len(b) \div 2) |->
                   split_edge(c[2 * k - 1].v, c[2 * k].v, p[2 * k - 1], p[2 * k])])

\* the edges the rule gives for the cells visited so far
RuleEdges(tieToSecond) ==
    Concat([i \in 1..(cur - 1) |-> RuleCellEdges(Cells2(dims)[i], tieToSecond)])

\* marching_cubes_2d is running or has returned
MC2Running == alg = "mc2" /\ tpc \in {"cells", "done"}

(* C28 as stated: in every branch a crossing with offset exactly 0.5 gets   *)
(* the property of the second corner of its edge, an offset below 0.5 the   *)
(* property of the first corner                                             *)
C28_TieGoesToSecondCorner == MC2Running => edges = RuleEdges(TRUE)

(* C28 amended: in every branch a crossing with offset at most 0.5, the tie *)
(* 0.5 included, gets the property of the first corner of its edge, and an  *)
(* offset above 0.5 the property of the second corner                       *)
C28_TieGoesToFirstCorner == MC2Running => edges = RuleEdges(FALSE)

\* an adaptive run returned a segment one of whose crossings is interpolated
\* to exactly 0.5 between corners of different properties
C28_Witness ==
    /\ alg = "mc2" /\ tpc = "done" /\ ADAPTIVE /\ Len(edges) > 0
    /\ \E i \in 1..Len(Cells2(dims)) :
           LET cell == Cells2(dims)[i]
               b == Branch2(Case2(cell))
           IN  \E j \in 1..Len(b) :
                   /\ Crossing(cell, b[j][1], b[j][2], b[j][3], b[j][4], b[j][5]).a = Rat(1, 2)
                   /\ PropAt(cell, b[j][4]) # PropAt(cell, b[j][5])

-----------------------------------------------------------------------------
(* Claims about the calls of adapt *)

\* every call of adapt for the cell, by the function the traversal uses,
\* returns an offset
AdaptCallsReturn(cell) ==
    CASE alg = "mc3" -> ~marching_cubes_3d_single_cell(cell).failed
      [] alg = "mc2" -> ~marching_cubes_2d_single_cell(cell).failed
      [] alg = "dc2" ->
           \A i \in 1..Len(AdaptArgs2(cell[1], cell[2])) :
               LET a == AdaptArgs2(cell[1], cell[2])[i]
               IN  adapt(a[1], a[2]) # AssertionError
      [] alg = "dc3" ->
           \A i \in 1..Len(AdaptArgs3(cell[1], cell[2], cell[3])) :
               LET a == AdaptArgs3(cell[1], cell[2], cell[3])[i]
               IN  adapt(a[1], a[2]) # AssertionError
      [] OTHER -> TRUE

\* the cell the loop that calls adapt visits next
CellsToVisit ==
    IF tpc \in {"cells", "verts"}
      THEN {(IF Len(dims) = 3 THEN Cells3(dims) ELSE Cells2(dims))[cur]}
      ELSE {}

(* C29: whatever the samples at the corners of a cell, every call of adapt  *)
(* by marching_cubes_3d_single_cell, marching_cubes_2d_single_cell,         *)
(* dual_contour_2d_find_best_vertex and dual_contour_3d_find_best_vertex    *)
(* gets two samples of different solidity, and no traversal stops on the    *)
(* assertion of adapt                                                       *)
C29_AdaptNeverAsserts ==
    alg \in {"mc3", "mc2", "dc2", "dc3"} =>
        /\ \A cell \in CellsToVisit : AdaptCallsReturn(cell)
        /\ tpc # "failed"

\* a traversal has finished on a field with a sample equal to 0 next to a
\* solid corner, in a cell that calls adapt
C29_Witness ==
    /\ alg \in {"mc3", "mc2", "dc2", "dc3"} /\ tpc = "done" /\ ADAPTIVE
    /\ \E e \in GridEdges : \E p, q \in e : field[p] = 0 /\ field[q] > 0
    /\ Len(IF alg = "mc3" THEN mesh.verts
           ELSE IF alg = "mc2" THEN edges
           ELSE IF alg = "dc2" THEN verts ELSE vert_array) > 0

\* the directed sides a->b, b->c, c->a of the triangle (a, b, c)
DirectedSides(t) == {<<t[1], t[2]>>, <<t[2], t[3]>>, <<t[3], t[1]>>}

\* no ordered pair of edge identifiers is a directed side of two triangles
ConsistentlyWound(entry) ==
    \A f \in 1..Len(entry) : \A g \in 1..Len(entry) :
        f < g => DirectedSides(entry[f]) \cap DirectedSides(entry[g]) = {}

(* C30: the table entry of every bitmask a cell looks up is consistently    *)
(* wound: no ordered pair (a -> b) of edge identifiers is a directed side   *)
(* of two triangles of the entry, a triangle has three different directed   *)
(* sides, so triangles sharing a side traverse it in opposite directions    *)
C30_EntriesConsistentlyWound ==
    alg = "mc3" =>
        \A cell \in LookedUp :
            LET entry == cases(CellCase(cell))
            IN  /\ ConsistentlyWound(entry)
                /\ \A f \in 1..Len(entry) :
                       Cardinality(DirectedSides(entry[f])) = 3

\* a looked-up entry has two triangles that share a side, one traversing it
\* a -> b and the other b -> a
C30_Witness ==
    /\ alg = "mc3"
    /\ tpc = "done"
    /\ \E cell \in LookedUp :
          LET entry == cases(CellCase(cell))
          IN  /\ ConsistentlyWound(entry)
              /\ \E f \in 1..Len(entry) : \E g \in 1..Len(entry) :
                    /\ f # g
                    /\ \E s \in DirectedSides(entry[f]) :
                          <<s[2], s[1]>> \in DirectedSides(entry[g])

=============================================================================
